---- MODULE Spec2Model ----
(***************************************************************************)
(* Feature-flag resolver (src/infra/features.ts) and the lazy loaders of   *)
(* the compatibility layer (src/compat/lazy-*.ts); at the end, the admin   *)
(* check and the command handlers of the Telegram bot (src/bot.ts), the    *)
(* object identities of the profile registry, and the bot's reminders.     *)
(*                                                                         *)
(* A JavaScript object is a function from its own keys to their values; a  *)
(* key that is absent from the DOMAIN reads as `undefined`.  A FeatureFlags *)
(* object has the feature names as keys plus "channels" and "tools", whose *)
(* values are objects again.  A nullable module-level variable is a         *)
(* sequence of length at most one: <<>> is null, <<v>> holds v.            *)
(***************************************************************************)
EXTENDS Integers, Sequences, FiniteSets, TLC

VARIABLES
    env,             \* process.env, the variables features.ts reads
    host,            \* what isRaspberryPi() and getTotalMemoryMB() read from the machine
    cachedFeatures,  \* features.ts: let cachedFeatures: FeatureFlags | null
    features,        \* argument handed to applyEnvOverrides
    result,          \* value returned by applyEnvOverrides (<<>> before the call)
    lastCall,        \* the most recent resolver call: operation, argument, outcome
    modules,         \* the loaders' cached module references (playwrightModule, ...)
    browser,         \* lazy-playwright: let browser: Browser | null
    importCount,     \* per loader, the number of import() calls started
    launchCount,     \* the number of chromium.launch() calls started
    pc,              \* per caller, where its current operation is suspended
    outcome          \* per caller, how its latest operation ended

loaderVars == <<modules, browser, importCount, launchCount, pc, outcome>>

vars ==
    <<env, host, cachedFeatures, features, result, lastCall,
      modules, browser, importCount, launchCount, pc, outcome>>

(***************************************************************************)
(* Identifier sets (features.ts, interfaces ChannelFeatures, ToolFeatures,  *)
(* FeatureFlags).                                                          *)
(***************************************************************************)
ChannelNames ==
    {"whatsapp", "telegram", "discord", "slack", "signal", "imessage",
     "line", "msteams", "matrix", "googlechat", "webchat"}

ToolNames == {"bash", "files", "webScrape", "screenshot", "browser", "imageEdit"}

FeatureNames ==
    {"browser", "imageProcessing", "pdfParsing", "localLLM", "canvas",
     "tui", "controlUI", "mediaUnderstanding", "tts", "voiceWake",
     "localEmbeddings", "vectorDB", "bonjour", "tailscale", "cron"}

(***************************************************************************)
(* Object helpers.                                                         *)
(***************************************************************************)
EmptyObject == [k \in {} |-> TRUE]

\* o.k is present (not undefined)
Has(o, k) == k \in DOMAIN o

\* { ...o, ...p }: own keys of both, p wins
ObjSpread(o, p) ==
    [k \in DOMAIN o \cup DOMAIN p |-> IF k \in DOMAIN p THEN p[k] ELSE o[k]]

\* o.k = v on a copy of o
ObjAssign(o, k, v) ==
    [j \in DOMAIN o \cup {k} |-> IF j = k THEN v ELSE o[j]]

\* !!o[k]: a feature, channel or tool flag that is present and true
IsOn(o, k) == Has(o, k) /\ o[k] = TRUE

\* the nested object o[k], or the empty object when o[k] is undefined
\* (spreading undefined copies nothing)
SubObject(o, k) == IF Has(o, k) THEN o[k] ELSE EmptyObject

(***************************************************************************)
(* The three profiles and the registry.                                    *)
(***************************************************************************)
defaultFeatures ==
    [browser |-> TRUE, imageProcessing |-> TRUE, pdfParsing |-> TRUE,
     localLLM |-> FALSE, canvas |-> FALSE,
     tui |-> TRUE, controlUI |-> TRUE,
     mediaUnderstanding |-> TRUE, tts |-> TRUE, voiceWake |-> TRUE,
     channels |->
        [whatsapp |-> TRUE, telegram |-> TRUE, discord |-> TRUE,
         slack |-> TRUE, signal |-> TRUE, imessage |-> TRUE, line |-> TRUE,
         msteams |-> TRUE, matrix |-> TRUE, googlechat |-> TRUE,
         webchat |-> TRUE],
     tools |->
        [bash |-> TRUE, files |-> TRUE, webScrape |-> TRUE,
         screenshot |-> TRUE, browser |-> TRUE, imageEdit |-> TRUE],
     localEmbeddings |-> FALSE, vectorDB |-> TRUE,
     bonjour |-> TRUE, tailscale |-> TRUE, cron |-> TRUE]

raspberryPiFeatures ==
    [browser |-> FALSE, imageProcessing |-> FALSE, pdfParsing |-> FALSE,
     localLLM |-> FALSE, canvas |-> FALSE,
     tui |-> FALSE, controlUI |-> FALSE,
     mediaUnderstanding |-> TRUE, tts |-> FALSE, voiceWake |-> FALSE,
     channels |->
        [whatsapp |-> FALSE, telegram |-> TRUE, discord |-> FALSE,
         slack |-> FALSE, signal |-> FALSE, imessage |-> FALSE,
         line |-> FALSE, msteams |-> FALSE, matrix |-> FALSE,
         googlechat |-> FALSE, webchat |-> TRUE],
     tools |->
        [bash |-> TRUE, files |-> TRUE, webScrape |-> FALSE,
         screenshot |-> FALSE, browser |-> FALSE, imageEdit |-> FALSE],
     localEmbeddings |-> FALSE, vectorDB |-> FALSE,
     bonjour |-> FALSE, tailscale |-> FALSE, cron |-> TRUE]

embeddedFeatures ==
    [browser |-> FALSE, imageProcessing |-> FALSE, pdfParsing |-> FALSE,
     localLLM |-> FALSE, canvas |-> FALSE,
     tui |-> FALSE, controlUI |-> FALSE,
     mediaUnderstanding |-> FALSE, tts |-> FALSE, voiceWake |-> FALSE,
     channels |->
        [whatsapp |-> FALSE, telegram |-> TRUE, discord |-> FALSE,
         slack |-> FALSE, signal |-> FALSE, imessage |-> FALSE,
         line |-> FALSE, msteams |-> FALSE, matrix |-> FALSE,
         googlechat |-> FALSE, webchat |-> FALSE],
     tools |->
        [bash |-> TRUE, files |-> FALSE, webScrape |-> FALSE,
         screenshot |-> FALSE, browser |-> FALSE, imageEdit |-> FALSE],
     localEmbeddings |-> FALSE, vectorDB |-> FALSE,
     bonjour |-> FALSE, tailscale |-> FALSE, cron |-> FALSE]

(***************************************************************************)
(* process.env.MOLTBOT_CHANNELS is a string, modelled as a sequence of      *)
(* atoms: a whole channel name, the separator ",", or some other text "x".  *)
(* The empty sequence is the unset (or empty) variable.                    *)
(***************************************************************************)
ChannelAtoms == {"telegram", "whatsapp", "x", ","}

MaxChannelsLen == 3

RECURSIVE SeqsUpTo(_, _)
SeqsUpTo(S, n) ==
    IF n = 0 THEN {<<>>}
    ELSE LET shorter == SeqsUpTo(S, n - 1)
         IN  shorter \cup {<<a>> \o s : a \in S, s \in {t \in shorter : Len(t) = n - 1}}

ChannelsValues == SeqsUpTo(ChannelAtoms, MaxChannelsLen)

\* String.prototype.split(','): the pieces between the separators, at least one
RECURSIVE split(_)
split(s) ==
    IF s = <<>> THEN << <<>> >>
    ELSE LET rest == split(Tail(s))
         IN  IF Head(s) = ","
             THEN << <<>> >> \o rest
             ELSE << <<Head(s)>> \o Head(rest) >> \o Tail(rest)

\* mutant: a piece matches when the channel name occurs anywhere in it
includes_Substring(pieces, name) ==
    \E i \in 1..Len(pieces) : \E j \in 1..Len(pieces[i]) : pieces[i][j] = name

\* Array.prototype.includes: some piece is exactly the channel name
includes(pieces, name) == \E i \in 1..Len(pieces) : pieces[i] = <<name>>

(***************************************************************************)
(* applyEnvOverrides (features.ts:315-354).                                 *)
(***************************************************************************)
\* mutant: the variable read as a switch that sets the flag either way
browserOverride_Switch(r, e) ==
    ObjAssign(ObjAssign(r, "browser", e.MOLTBOT_DISABLE_BROWSER # "1"), "tools",
        ObjSpread(SubObject(r, "tools"),
            [browser |-> e.MOLTBOT_DISABLE_BROWSER # "1",
             webScrape |-> e.MOLTBOT_DISABLE_BROWSER # "1",
             screenshot |-> e.MOLTBOT_DISABLE_BROWSER # "1"]))

browserOverride(r, e) ==
    IF e.MOLTBOT_DISABLE_BROWSER = "1"
    THEN ObjAssign(ObjAssign(r, "browser", FALSE), "tools",
             ObjSpread(SubObject(r, "tools"),
                 [browser |-> FALSE, webScrape |-> FALSE, screenshot |-> FALSE]))
    ELSE r

\* mutant: the flag is cleared without the cascade to the tool
sharpOverride_NoCascade(r, e) ==
    IF e.MOLTBOT_DISABLE_SHARP = "1" THEN ObjAssign(r, "imageProcessing", FALSE) ELSE r

sharpOverride(r, e) ==
    IF e.MOLTBOT_DISABLE_SHARP = "1"
    THEN ObjAssign(ObjAssign(r, "imageProcessing", FALSE), "tools",
             ObjSpread(SubObject(r, "tools"), [imageEdit |-> FALSE]))
    ELSE r

\* mutant: disabling the terminal UI also disables the web control UI
tuiOverride_Headless(r, e) ==
    IF e.MOLTBOT_DISABLE_TUI = "1"
    THEN ObjAssign(ObjAssign(r, "tui", FALSE), "controlUI", FALSE)
    ELSE r

tuiOverride(r, e) ==
    IF e.MOLTBOT_DISABLE_TUI = "1" THEN ObjAssign(r, "tui", FALSE) ELSE r

\* mutant: the list only filters the channels of the base profile
channelOverride_Filter(r, e) ==
    IF e.MOLTBOT_CHANNELS # <<>>
    THEN LET enabledChannels == split(e.MOLTBOT_CHANNELS)
         IN  ObjAssign(r, "channels",
                 [c \in ChannelNames |->
                     includes(enabledChannels, c) /\ IsOn(SubObject(r, "channels"), c)])
    ELSE r

channelOverride(r, e) ==
    IF e.MOLTBOT_CHANNELS # <<>>
    THEN LET enabledChannels == split(e.MOLTBOT_CHANNELS)
         IN  ObjAssign(r, "channels",
                 [c \in ChannelNames |-> includes(enabledChannels, c)])
    ELSE r

\* mutant: the terminal-UI variable inverts the flag instead of clearing it
applyEnvOverrides_Invert(f, e) ==
    LET r == sharpOverride(browserOverride(f, e), e)
    IN  channelOverride(
            IF e.MOLTBOT_DISABLE_TUI = "1" THEN ObjAssign(r, "tui", ~IsOn(r, "tui")) ELSE r,
            e)

applyEnvOverrides(f, e) ==
    channelOverride(tuiOverride(sharpOverride(browserOverride(f, e), e), e), e)

(***************************************************************************)
(* Inputs of the override specification: every registered profile, the     *)
(* object without own keys, and every registered profile with one flag     *)
(* inverted; every combination of the override variables.                  *)
(***************************************************************************)
RegisteredObjects == {defaultFeatures, raspberryPiFeatures, embeddedFeatures}

FlipFeature(p, k) == ObjAssign(p, k, ~p[k])
FlipNested(p, group, k) == ObjAssign(p, group, ObjAssign(p[group], k, ~p[group][k]))

InputProfiles ==
    RegisteredObjects \cup {EmptyObject}
    \cup {FlipFeature(p, k) : p \in RegisteredObjects, k \in FeatureNames}
    \cup {FlipNested(p, "channels", k) : p \in RegisteredObjects, k \in ChannelNames}
    \cup {FlipNested(p, "tools", k) : p \in RegisteredObjects, k \in ToolNames}

(***************************************************************************)
(* The five lazy loaders (compat/lazy-playwright.ts, lazy-sharp.ts,         *)
(* lazy-baileys.ts, lazy-pdfjs.ts, lazy-llama.ts): state after the modules  *)
(* are evaluated.                                                          *)
(***************************************************************************)
Loaders == {"playwright", "sharp", "baileys", "pdfjs", "llama"}

Callers == {"a", "b"}

Idle == [at |-> "idle", loader |-> "", op |-> "", id |-> 0]

NoOutcome == [kind |-> "none", loader |-> "", value |-> "", id |-> 0]

InitLoaders ==
    /\ modules = [l \in Loaders |-> <<>>]
    /\ browser = <<>>
    /\ importCount = [l \in Loaders |-> 0]
    /\ launchCount = 0
    /\ pc = [c \in Callers |-> Idle]
    /\ outcome = [c \in Callers |-> NoOutcome]

FlagValues == {"", "1", "true"}

NoCall ==
    [op |-> "none", arg |-> "", computed |-> FALSE, profile |-> "",
     flags |-> EmptyObject, value |-> ""]

UnsetEnv ==
    [MOLTBOT_PROFILE |-> "", CLAWDBOT_PROFILE |-> "",
     MOLTBOT_DISABLE_BROWSER |-> "", MOLTBOT_DISABLE_SHARP |-> "",
     MOLTBOT_DISABLE_TUI |-> "", MOLTBOT_CHANNELS |-> <<>>]

\* The machine: process.platform; the content of /proc/device-tree/model
\* (<<>> when reading it throws, else <<text>>, the text a sequence of
\* atoms: words, the blank " " and other text "x"); os.totalmem() counted in
\* units of 512 KiB.  By default a Linux server without that file, 4 GiB.
DefaultHost == [platform |-> "linux", model |-> <<>>, totalmem |-> 8192]

OverrideEnvs ==
    {[UnsetEnv EXCEPT !.MOLTBOT_DISABLE_BROWSER = b, !.MOLTBOT_DISABLE_SHARP = s,
                      !.MOLTBOT_DISABLE_TUI = t, !.MOLTBOT_CHANNELS = c] :
        b \in FlagValues, s \in FlagValues, t \in FlagValues, c \in ChannelsValues}

InitOverrides ==
    /\ env \in OverrideEnvs
    /\ host = DefaultHost
    /\ cachedFeatures = <<>>
    /\ features \in InputProfiles
    /\ result = <<>>
    /\ lastCall = NoCall
    /\ InitLoaders

\* one call applyEnvOverrides(features)
ApplyEnvOverrides ==
    /\ result = <<>>
    /\ result' = <<applyEnvOverrides(features, env)>>
    /\ UNCHANGED <<env, host, cachedFeatures, features, lastCall>>
    /\ UNCHANGED loaderVars

NextOverrides == ApplyEnvOverrides

SpecOverrides == InitOverrides /\ [][NextOverrides]_vars

(***************************************************************************)
(* C3: every capability flag and every tool flag that is on in             *)
(* applyEnvOverrides(P) is on in P.                                        *)
(***************************************************************************)
C3_OverridesOnlyNarrow ==
    result # <<>> =>
        /\ \A k \in FeatureNames : IsOn(result[1], k) => IsOn(features, k)
        /\ \A t \in ToolNames :
               IsOn(SubObject(result[1], "tools"), t)
                   => IsOn(SubObject(features, "tools"), t)

C3_Witness ==
    /\ result # <<>>
    /\ env.MOLTBOT_DISABLE_BROWSER = "1"
    /\ env.MOLTBOT_DISABLE_SHARP = "1"
    /\ IsOn(features, "browser") /\ ~IsOn(result[1], "browser")
    /\ IsOn(features.tools, "imageEdit") /\ ~IsOn(result[1].tools, "imageEdit")
    /\ IsOn(result[1].tools, "files")

NamedInList(s, c) ==
    \E i \in 1..Len(s) :
        /\ s[i] = c
        /\ (i = 1 \/ s[i - 1] = ",")
        /\ (i = Len(s) \/ s[i + 1] = ",")

RegisteredNames == {"default", "raspberry-pi", "rpi", "lite", "embedded", "iot"}

PrototypeKeys == {"constructor", "toString", "valueOf", "hasOwnProperty", "__proto__"}

\* mutant: the alias lite is registered with an object that lacks the canvas flag
profiles_SparseAlias(name) ==
    IF name = "default" THEN <<defaultFeatures>>
    ELSE IF name = "lite"
    THEN <<[k \in DOMAIN raspberryPiFeatures \ {"canvas"} |-> raspberryPiFeatures[k]]>>
    ELSE IF name \in {"raspberry-pi", "rpi"} THEN <<raspberryPiFeatures>>
    ELSE IF name \in {"embedded", "iot"} THEN <<embeddedFeatures>>
    ELSE IF name \in PrototypeKeys THEN <<EmptyObject>>
    ELSE <<>>

\* profiles[name]: <<value>>, or <<>> for undefined
profiles(name) ==
    IF name = "default" THEN <<defaultFeatures>>
    ELSE IF name \in {"raspberry-pi", "rpi", "lite"} THEN <<raspberryPiFeatures>>
    ELSE IF name \in {"embedded", "iot"} THEN <<embeddedFeatures>>
    ELSE IF name \in PrototypeKeys THEN <<EmptyObject>>
    ELSE <<>>

LowMemoryMB == 600

\* String.prototype.toLowerCase on a text of atoms
toLowerCase(text) ==
    [i \in 1..Len(text) |->
        IF text[i] = "Raspberry" THEN "raspberry"
        ELSE IF text[i] = "Pi" THEN "pi"
        ELSE IF text[i] = "Orange" THEN "orange"
        ELSE IF text[i] = "Zero" THEN "zero"
        ELSE text[i]]

\* String.prototype.includes: the needle occurs as a contiguous part of the text
includesText(text, needle) ==
    \E i \in 0..(Len(text) - Len(needle)) :
        \A j \in 1..Len(needle) : text[i + j] = needle[j]

\* mutant: a device-model file that cannot be read counts as a Raspberry Pi
isRaspberryPi_Unreadable(h) ==
    h.platform = "linux"
        /\ (h.model = <<>>
              \/ includesText(toLowerCase(h.model[1]), <<"raspberry", " ", "pi">>))

\* isRaspberryPi (features.ts:290-302); the catch block falls through to
\* `return false`
isRaspberryPi(h) ==
    IF h.platform = "linux"
    THEN IF h.model = <<>> THEN FALSE
         ELSE includesText(toLowerCase(h.model[1]), <<"raspberry", " ", "pi">>)
    ELSE FALSE

\* getTotalMemoryMB (features.ts:307-310): Math.round(os.totalmem() / (1024 * 1024)),
\* which rounds a half upwards
getTotalMemoryMB(h) == (h.totalmem + 1) \div 2

\* detectProfile (features.ts:275-285)
detectProfile(h) ==
    IF isRaspberryPi(h) /\ getTotalMemoryMB(h) < LowMemoryMB
    THEN "raspberry-pi"
    ELSE "default"

\* a || b on strings: the empty (or unset) string is falsy
OrElse(a, b) == IF a # "" THEN a ELSE b

\* mutant: the legacy variable consulted before the primary one
profileName_LegacyFirst(forceProfile, e, h) ==
    OrElse(forceProfile,
        OrElse(e.CLAWDBOT_PROFILE, OrElse(e.MOLTBOT_PROFILE, detectProfile(h))))

\* loadFeatures, const profile (features.ts:254-258)
profileName(forceProfile, e, h) ==
    OrElse(forceProfile,
        OrElse(e.MOLTBOT_PROFILE, OrElse(e.CLAWDBOT_PROFILE, detectProfile(h))))

\* mutant: the name is taken from host detection alone
getCurrentProfile_DetectOnly(e, h) == detectProfile(h)

\* getCurrentProfile (features.ts:383-389)
getCurrentProfile(e, h) ==
    OrElse(e.MOLTBOT_PROFILE, OrElse(e.CLAWDBOT_PROFILE, detectProfile(h)))

\* mutant: the alias lite has no registry entry and falls back to the default
selectFeatures_NoLite(name) ==
    IF name = "lite" THEN defaultFeatures
    ELSE IF profiles(name) # <<>> THEN profiles(name)[1] ELSE defaultFeatures

\* loadFeatures, const features (features.ts:260)
selectFeatures(name) ==
    IF profiles(name) # <<>> THEN profiles(name)[1] ELSE defaultFeatures

\* loadFeatures, const overridden (features.ts:254-263)
computeFeatures(forceProfile, e, h) ==
    applyEnvOverrides(selectFeatures(profileName(forceProfile, e, h)), e)

\* mutant: the cache is never consulted
cacheHit_Never(cache, forceProfile) == FALSE

\* loadFeatures, the early return (features.ts:250)
cacheHit(cache, forceProfile) == cache # <<>> /\ forceProfile = ""

\* mutant: a forced load stores its result like an unforced one
cacheAfter_Always(cache, forceProfile, overridden) == <<overridden>>

\* loadFeatures, the store (features.ts:265-267)
cacheAfter(cache, forceProfile, overridden) ==
    IF forceProfile = "" THEN <<overridden>> ELSE cache

\* loadFeatures (features.ts:249-270): the returned flags
loadFeaturesResult(cache, forceProfile, e, h) ==
    IF cacheHit(cache, forceProfile) THEN cache[1]
    ELSE computeFeatures(forceProfile, e, h)

\* loadFeatures (features.ts:249-270): cachedFeatures after the call
loadFeaturesCache(cache, forceProfile, e, h) ==
    IF cacheHit(cache, forceProfile) THEN cache
    ELSE cacheAfter(cache, forceProfile, computeFeatures(forceProfile, e, h))

\* a JavaScript value shown as text
Shown(o, k) == IF ~Has(o, k) THEN "undefined" ELSE IF o[k] THEN "true" ELSE "false"

\* isFeatureEnabled (features.ts:359-362): !!features[feature]
isFeatureEnabledResult(f, feature) == IF IsOn(f, feature) THEN "true" ELSE "false"

\* isChannelEnabled (features.ts:367-370): features.channels[channel]
isChannelEnabledResult(f, channel) ==
    IF ~Has(f, "channels") THEN "TypeError" ELSE Shown(f.channels, channel)

\* isToolEnabled (features.ts:375-378): features.tools[tool]
isToolEnabledResult(f, tool) ==
    IF ~Has(f, "tools") THEN "TypeError" ELSE Shown(f.tools, tool)

(***************************************************************************)
(* The resolver specification: the process starts with an empty cache on    *)
(* some host; callers load the flags (forced or not) and query them while   *)
(* the environment and the host readings may change in between.            *)
(***************************************************************************)
ProfileValues == {"", "raspberry-pi", "iot", "bogus-profile", "constructor"}

\* a Raspberry Pi Zero 2 W names itself in its device tree
PiZeroModel == <<"Raspberry", " ", "Pi", " ", "Zero">>

Hosts ==
    {[platform |-> "linux", model |-> m, totalmem |-> t] :
        m \in {<<>>, <<PiZeroModel>>}, t \in {1024, 8192}}

ChannelsSamples == {<<>>, <<"whatsapp">>}

FeatureSamples == {"browser", "tui", "cron"}
ChannelSamples == {"whatsapp", "telegram"}
ToolSamples == {"browser", "files"}

MaxEnvChanges == 2

\* number of differences between the current surroundings and the initial ones
envChanges ==
    Cardinality({k \in DOMAIN env : env[k] # UnsetEnv[k]})
        + (IF host # DefaultHost THEN 1 ELSE 0)

InitResolver ==
    /\ env = UnsetEnv
    /\ host = DefaultHost
    /\ cachedFeatures = <<>>
    /\ features = EmptyObject
    /\ result = <<>>
    /\ lastCall = NoCall
    /\ InitLoaders

Call(op, arg, computed, name, flags, value) ==
    [op |-> op, arg |-> arg, computed |-> computed, profile |-> name,
     flags |-> flags, value |-> value]

\* process.env[k] = v
SetEnv ==
    /\ \E k \in DOMAIN env :
       \E v \in (IF k \in {"MOLTBOT_PROFILE", "CLAWDBOT_PROFILE"} THEN ProfileValues
                 ELSE IF k = "MOLTBOT_CHANNELS" THEN ChannelsSamples
                 ELSE {"", "1"}) :
          /\ v # env[k]
          /\ env' = [env EXCEPT ![k] = v]
    /\ UNCHANGED <<host, cachedFeatures, features, result, lastCall>>
    /\ UNCHANGED loaderVars
    /\ envChanges' <= MaxEnvChanges

\* the device model file or the memory reading changes
SetHost ==
    /\ host' \in Hosts \ {host}
    /\ UNCHANGED <<env, cachedFeatures, features, result, lastCall>>
    /\ UNCHANGED loaderVars
    /\ envChanges' <= MaxEnvChanges

\* loadFeatures(forceProfile); forceProfile = "" is the call without argument
LoadFeatures ==
    \E forceProfile \in ProfileValues :
        /\ cachedFeatures' = loadFeaturesCache(cachedFeatures, forceProfile, env, host)
        /\ lastCall' =
              Call("loadFeatures", forceProfile,
                   ~cacheHit(cachedFeatures, forceProfile),
                   IF cacheHit(cachedFeatures, forceProfile) THEN ""
                   ELSE profileName(forceProfile, env, host),
                   loadFeaturesResult(cachedFeatures, forceProfile, env, host), "")
        /\ UNCHANGED <<env, host, features, result>>
        /\ UNCHANGED loaderVars

IsFeatureEnabled ==
    \E feature \in FeatureSamples :
        /\ cachedFeatures' = loadFeaturesCache(cachedFeatures, "", env, host)
        /\ lastCall' =
              Call("isFeatureEnabled", feature, FALSE, "", EmptyObject,
                   isFeatureEnabledResult(
                       loadFeaturesResult(cachedFeatures, "", env, host), feature))
        /\ UNCHANGED <<env, host, features, result>>
        /\ UNCHANGED loaderVars

IsChannelEnabled ==
    \E channel \in ChannelSamples :
        /\ cachedFeatures' = loadFeaturesCache(cachedFeatures, "", env, host)
        /\ lastCall' =
              Call("isChannelEnabled", channel, FALSE, "", EmptyObject,
                   isChannelEnabledResult(
                       loadFeaturesResult(cachedFeatures, "", env, host), channel))
        /\ UNCHANGED <<env, host, features, result>>
        /\ UNCHANGED loaderVars

IsToolEnabled ==
    \E tool \in ToolSamples :
        /\ cachedFeatures' = loadFeaturesCache(cachedFeatures, "", env, host)
        /\ lastCall' =
              Call("isToolEnabled", tool, FALSE, "", EmptyObject,
                   isToolEnabledResult(
                       loadFeaturesResult(cachedFeatures, "", env, host), tool))
        /\ UNCHANGED <<env, host, features, result>>
        /\ UNCHANGED loaderVars

NextResolver ==
    \/ SetEnv
    \/ SetHost
    \/ LoadFeatures
    \/ IsFeatureEnabled
    \/ IsChannelEnabled
    \/ IsToolEnabled

SpecResolver == InitResolver /\ [][NextResolver]_vars

\* this step is a call of the resolver operation op
IsCall(op) == lastCall'.op = op /\ UNCHANGED <<env, host>>

IsQuery ==
    \/ IsCall("isFeatureEnabled") \/ IsCall("isChannelEnabled") \/ IsCall("isToolEnabled")

\* what the query of lastCall answers when it is looked up in the flags f
QueryValue(call, f) ==
    IF call.op = "isFeatureEnabled" THEN isFeatureEnabledResult(f, call.arg)
    ELSE IF call.op = "isChannelEnabled" THEN isChannelEnabledResult(f, call.arg)
    ELSE isToolEnabledResult(f, call.arg)

\* the flags an unforced query answers from in the current state
UnforcedFlags ==
    IF cachedFeatures # <<>> THEN cachedFeatures[1] ELSE computeFeatures("", env, host)

C8_ComputedOnce ==
    [][cachedFeatures # <<>>
          => /\ cachedFeatures' = cachedFeatures
             /\ (IsCall("loadFeatures") /\ lastCall'.arg = "")
                    => lastCall'.flags = cachedFeatures[1]
             /\ IsQuery => lastCall'.value = QueryValue(lastCall', cachedFeatures[1])]_vars

C8_Witness ==
    /\ cachedFeatures # <<>>
    /\ lastCall.op = "isFeatureEnabled"
    /\ lastCall.arg = "browser"
    /\ lastCall.value = "true"
    /\ ~IsOn(computeFeatures("", env, host), "browser")

C10_UnknownNameGivesDefault ==
    [][(IsCall("loadFeatures") /\ lastCall'.computed
            /\ lastCall'.profile \notin RegisteredNames)
          => lastCall'.flags = applyEnvOverrides(defaultFeatures, env)]_vars

(***************************************************************************)
(* The lazy loaders.  Every live operation of a loader starts with          *)
(* `await loadX()`; the code between two awaits runs without interruption   *)
(* and is one step.                                                        *)
(***************************************************************************)
\* the package a loader imports
ModuleOf(l) ==
    IF l = "playwright" THEN "playwright-core"
    ELSE IF l = "sharp" THEN "sharp"
    ELSE IF l = "baileys" THEN "@whiskeysockets/baileys"
    ELSE IF l = "pdfjs" THEN "pdfjs-dist"
    ELSE "node-llama-cpp"

\* the gate a loader reads: isFeatureEnabled(...) or isChannelEnabled('whatsapp')
loaderFlag(l, flags) ==
    IF l = "baileys" THEN isChannelEnabledResult(flags, "whatsapp")
    ELSE IF l = "playwright" THEN isFeatureEnabledResult(flags, "browser")
    ELSE IF l = "sharp" THEN isFeatureEnabledResult(flags, "imageProcessing")
    ELSE IF l = "pdfjs" THEN isFeatureEnabledResult(flags, "pdfParsing")
    ELSE isFeatureEnabledResult(flags, "localLLM")

\* mutant: the loader without its capability check
loadEntry_NoGate(l, flags, mods) ==
    IF mods[l] = <<>> THEN "import" ELSE "module"

\* loadX up to its first await: what the call does next
loadEntry(l, flags, mods) ==
    IF loaderFlag(l, flags) = "TypeError" THEN "TypeError"
    ELSE IF loaderFlag(l, flags) # "true" THEN "disabled"
    ELSE IF mods[l] = <<>> THEN "import"
    ELSE "module"

\* mutant: the catch block stores the failure in the module variable
moduleAfterImport_StoreFailure(mods, l, ok) ==
    [mods EXCEPT ![l] = <<IF ok THEN ModuleOf(l) ELSE "failed">>]

\* loadX after `await import(...)`: the module variable
moduleAfterImport(mods, l, ok) ==
    IF ok THEN [mods EXCEPT ![l] = <<ModuleOf(l)>>] ELSE mods

\* mutant: closing the browser also drops the module reference
modulesAfterClose_Reset(mods) == [mods EXCEPT !["playwright"] = <<>>]

\* closeBrowser: the module variables (only `browser` is reset)
modulesAfterClose(mods) == mods

MaxImports == 2

MaxLaunches == 2

\* the number of import() calls started so far, over all loaders
RECURSIVE SumOver(_, _)
SumOver(f, S) ==
    IF S = {} THEN 0
    ELSE LET x == CHOOSE y \in S : TRUE IN f[x] + SumOver(f, S \ {x})

importsStarted == SumOver(importCount, Loaders)

\* what a rejected import() throws: the package is not installed, or its
\* native binary does not load on this platform
ImportFailures == {"ERR_MODULE_NOT_FOUND", "ERR_DLOPEN_FAILED"}

\* how an operation ended.  A "disabled" outcome is the loader's XDisabledError,
\* whose message quotes getCurrentProfile(), kept in `value`; a "loadError" is
\* the Error of the catch block, whose message ends with the text of the
\* rejected import's cause, kept in `value`.
Outcome(kind, l, value, id) == [kind |-> kind, loader |-> l, value |-> value, id |-> id]

Suspended(at, l, op, id) == [at |-> at, loader |-> l, op |-> op, id |-> id]

\* `this.name` of the capability-disabled error class of a loader
DisabledErrorName(l) ==
    IF l = "playwright" THEN "BrowserDisabledError"
    ELSE IF l = "sharp" THEN "ImageProcessingDisabledError"
    ELSE IF l = "baileys" THEN "WhatsAppDisabledError"
    ELSE IF l = "pdfjs" THEN "PDFParsingDisabledError"
    ELSE "LocalLLMDisabledError"

\* the remediation hint that ends the message of the capability-disabled error
disabledHint(l) ==
    IF l = "playwright"
    THEN "Set MOLTBOT_PROFILE=default or enable browser feature to use this functionality."
    ELSE IF l = "sharp"
    THEN "Set MOLTBOT_PROFILE=default or enable imageProcessing feature. Alternatively, use Claude Vision API for image analysis."
    ELSE IF l = "baileys"
    THEN "Enable WhatsApp in config or use MOLTBOT_CHANNELS=whatsapp to enable it."
    ELSE IF l = "pdfjs"
    THEN "Set MOLTBOT_PROFILE=default or enable pdfParsing feature to use this functionality."
    ELSE "Set MOLTBOT_PROFILE=default and enable localLLM feature to use this functionality. Alternatively, use API-based embeddings with OpenAI or Anthropic."

\* mutant: the catch block rethrows a failed import as the capability-disabled error
thrownName_Disabled(o) ==
    IF o.kind \in {"disabled", "loadError"} THEN DisabledErrorName(o.loader)
    ELSE IF o.kind = "TypeError" THEN "TypeError"
    ELSE ""

\* the `name` property of the error that the loader's own code threw ("" when
\* the operation did not end in one): the XDisabledError class, the plain
\* `new Error(...)` of the catch block, or the TypeError of reading a
\* property of undefined
thrownName(o) ==
    IF o.kind = "disabled" THEN DisabledErrorName(o.loader)
    ELSE IF o.kind = "loadError" THEN "Error"
    ELSE IF o.kind = "TypeError" THEN "TypeError"
    ELSE ""

LoaderEnvs ==
    {UnsetEnv,
     [UnsetEnv EXCEPT !.MOLTBOT_PROFILE = "raspberry-pi"],
     [UnsetEnv EXCEPT !.MOLTBOT_PROFILE = "constructor"],
     [UnsetEnv EXCEPT !.MOLTBOT_DISABLE_SHARP = "1", !.MOLTBOT_CHANNELS = <<"telegram">>],
     [UnsetEnv EXCEPT !.MOLTBOT_DISABLE_BROWSER = "1"],
     [UnsetEnv EXCEPT !.CLAWDBOT_PROFILE = "iot", !.MOLTBOT_CHANNELS = <<"whatsapp">>]}

Init ==
    /\ env \in LoaderEnvs
    /\ host = DefaultHost
    /\ cachedFeatures = <<>>
    /\ features = EmptyObject
    /\ result = <<>>
    /\ lastCall = NoCall
    /\ InitLoaders

\* the call of loadX made by caller c for operation op, whose continuation
\* after a cached module is `next`
CallLoad(c, l, op, next) ==
    LET flags == loadFeaturesResult(cachedFeatures, "", env, host)
        entry == loadEntry(l, flags, modules)
    IN  /\ cachedFeatures' = loadFeaturesCache(cachedFeatures, "", env, host)
        /\ IF entry = "import"
           THEN /\ importsStarted < MaxImports
                /\ importCount' = [importCount EXCEPT ![l] = @ + 1]
                /\ pc' = [pc EXCEPT ![c] = Suspended("import", l, op, 0)]
                /\ outcome' = [outcome EXCEPT ![c] = Outcome("pending", l, "", 0)]
           ELSE IF entry = "module"
           THEN /\ pc' = [pc EXCEPT ![c] = next]
                /\ outcome' = [outcome EXCEPT ![c] =
                       IF next = Idle THEN Outcome("module", l, modules[l][1], 0)
                       ELSE Outcome("pending", l, "", 0)]
                /\ UNCHANGED importCount
           ELSE /\ outcome' = [outcome EXCEPT ![c] =
                       Outcome(entry, l,
                           IF entry = "disabled" THEN getCurrentProfile(env, host) ELSE "",
                           0)]
                /\ UNCHANGED <<pc, importCount>>

\* a live operation of the sharp, baileys, pdfjs or llama loader:
\* `const m = await loadX()` (the rest of the operation uses m only)
LiveOperation(c, l) ==
    /\ pc[c] = Idle
    /\ l # "playwright"
    /\ CallLoad(c, l, "load", Idle)
    /\ UNCHANGED <<env, host, features, result, lastCall, modules, browser, launchCount>>

\* launchBrowser(), getBrowser(), newPage() (lazy-playwright.ts:84-128)
BrowserOperation(c, op) ==
    /\ pc[c] = Idle
    /\ IF op # "launchBrowser" /\ browser # <<>>
       THEN /\ outcome' = [outcome EXCEPT ![c] = Outcome("browser", "playwright", "", browser[1])]
            /\ UNCHANGED <<cachedFeatures, importCount, pc>>
       ELSE CallLoad(c, "playwright", op, Suspended("loaded", "playwright", op, 0))
    /\ UNCHANGED <<env, host, features, result, lastCall, modules, browser, launchCount>>

\* the import() a caller awaits settles: fulfilled (ok) or rejected
ImportSettles(c) ==
    /\ pc[c].at = "import"
    /\ \E cause \in {""} \cup ImportFailures :
        LET l == pc[c].loader
            ok == cause = ""
        IN
        /\ modules' = moduleAfterImport(modules, l, ok)
        /\ IF ~ok
           THEN /\ pc' = [pc EXCEPT ![c] = Idle]
                /\ outcome' = [outcome EXCEPT ![c] = Outcome("loadError", l, cause, 0)]
           ELSE IF l = "playwright"
           THEN /\ pc' = [pc EXCEPT ![c] = Suspended("loaded", l, pc[c].op, 0)]
                /\ UNCHANGED outcome
           ELSE /\ pc' = [pc EXCEPT ![c] = Idle]
                /\ outcome' = [outcome EXCEPT ![c] = Outcome("module", l, modules'[l][1], 0)]
    /\ UNCHANGED <<env, host, cachedFeatures, features, result, lastCall,
                   browser, importCount, launchCount>>

\* launchBrowser after `await loadPlaywright()` (lazy-playwright.ts:90-97)
AfterLoad(c) ==
    /\ pc[c].at = "loaded"
    /\ IF browser # <<>>
       THEN /\ pc' = [pc EXCEPT ![c] = Idle]
            /\ outcome' = [outcome EXCEPT ![c] = Outcome("browser", "playwright", "", browser[1])]
            /\ UNCHANGED launchCount
       ELSE /\ launchCount < MaxLaunches
            /\ launchCount' = launchCount + 1
            /\ pc' = [pc EXCEPT ![c] = Suspended("launch", "playwright", pc[c].op, launchCount + 1)]
            /\ UNCHANGED outcome
    /\ UNCHANGED <<env, host, cachedFeatures, features, result, lastCall,
                   modules, browser, importCount>>

\* chromium.launch() settles (lazy-playwright.ts:94-99)
LaunchSettles(c) ==
    /\ pc[c].at = "launch"
    /\ \E ok \in BOOLEAN :
        IF ok
        THEN /\ browser' = <<pc[c].id>>
             /\ outcome' = [outcome EXCEPT ![c] = Outcome("browser", "playwright", "", pc[c].id)]
        ELSE /\ UNCHANGED browser
             /\ outcome' = [outcome EXCEPT ![c] = Outcome("launchError", "playwright", "", 0)]
    /\ pc' = [pc EXCEPT ![c] = Idle]
    /\ UNCHANGED <<env, host, cachedFeatures, features, result, lastCall,
                   modules, importCount, launchCount>>

\* closeBrowser() up to `await browser.close()` (lazy-playwright.ts:115-117)
CloseBrowser(c) ==
    /\ pc[c] = Idle
    /\ IF browser # <<>>
       THEN /\ pc' = [pc EXCEPT ![c] = Suspended("close", "playwright", "closeBrowser", browser[1])]
            /\ outcome' = [outcome EXCEPT ![c] = Outcome("pending", "playwright", "", 0)]
       ELSE /\ outcome' = [outcome EXCEPT ![c] = Outcome("closed", "playwright", "", 0)]
            /\ UNCHANGED pc
    /\ UNCHANGED <<env, host, cachedFeatures, features, result, lastCall,
                   modules, browser, importCount, launchCount>>

\* browser.close() settles; `browser = null` follows a fulfilled close
CloseSettles(c) ==
    /\ pc[c].at = "close"
    /\ \E ok \in BOOLEAN :
        IF ok
        THEN /\ browser' = <<>>
             /\ modules' = modulesAfterClose(modules)
             /\ outcome' = [outcome EXCEPT ![c] = Outcome("closed", "playwright", "", pc[c].id)]
        ELSE /\ UNCHANGED <<browser, modules>>
             /\ outcome' = [outcome EXCEPT ![c] = Outcome("closeError", "playwright", "", pc[c].id)]
    /\ pc' = [pc EXCEPT ![c] = Idle]
    /\ UNCHANGED <<env, host, cachedFeatures, features, result, lastCall,
                   importCount, launchCount>>

\* the environment variables are rewritten while the process runs
ChangeEnv ==
    /\ env' \in LoaderEnvs \ {env}
    /\ UNCHANGED <<host, cachedFeatures, features, result, lastCall>>
    /\ UNCHANGED loaderVars

Next ==
    \/ ChangeEnv
    \/ \E c \in Callers :
        \/ \E l \in Loaders : LiveOperation(c, l)
        \/ \E op \in {"launchBrowser", "getBrowser", "newPage"} : BrowserOperation(c, op)
        \/ ImportSettles(c)
        \/ AfterLoad(c)
        \/ LaunchSettles(c)
        \/ CloseBrowser(c)
        \/ CloseSettles(c)

Spec == Init /\ [][Next]_vars

\* the callers that are awaiting an import() they started for loader l
Importing(l) == {c \in Callers : pc[c].at = "import" /\ pc[c].loader = l}

\* the capability of loader l is on in the flags an unforced query answers from
ResolvedOn(l) ==
    IF l = "baileys" THEN IsOn(SubObject(UnforcedFlags, "channels"), "whatsapp")
    ELSE IF l = "playwright" THEN IsOn(UnforcedFlags, "browser")
    ELSE IF l = "sharp" THEN IsOn(UnforcedFlags, "imageProcessing")
    ELSE IF l = "pdfjs" THEN IsOn(UnforcedFlags, "pdfParsing")
    ELSE IsOn(UnforcedFlags, "localLLM")

\* in this step caller c calls an operation of loader l that needs the module
CallsLoader(c, l) ==
    /\ pc[c] = Idle
    /\ outcome'[c] # outcome[c]
    /\ outcome'[c].loader = l
    /\ pc'[c].at # "close"
    /\ outcome'[c].kind # "closed"

(***************************************************************************)
(* C1 as stated: at most one import of a loader's module is in progress at  *)
(* any time; a second concurrent caller starts no import of its own.       *)
(***************************************************************************)
C1_OneImportInFlight ==
    \A l \in Loaders : Cardinality(Importing(l)) <= 1

(***************************************************************************)
(* C2: while the capability of a loader resolves to disabled, no import of  *)
(* its module has been started: the counter is zero, nobody awaits one and  *)
(* the module reference is empty.                                          *)
(***************************************************************************)
C2_DisabledNeverImports ==
    \A l \in Loaders :
        ~ResolvedOn(l)
            => importCount[l] = 0 /\ Importing(l) = {} /\ modules[l] = <<>>

C2_Witness ==
    /\ outcome["a"].kind = "disabled" /\ outcome["a"].loader = "sharp"
    /\ outcome["b"].kind = "disabled" /\ outcome["b"].loader = "baileys"
    /\ importCount["sharp"] = 0 /\ importCount["baileys"] = 0
    /\ importCount["pdfjs"] > 0

(***************************************************************************)
(* C6: a failed import is not remembered.  A load error is only ever the    *)
(* outcome of an import that settled in that very step, and it leaves the   *)
(* module references as they were; a call on an enabled loader without      *)
(* module starts a new import; an import that succeeds sets the reference.  *)
(***************************************************************************)
C6_FailureIsNotCached ==
    [][\A c \in Callers :
          /\ (outcome'[c] # outcome[c] /\ outcome'[c].kind = "loadError")
                => /\ pc[c].at = "import"
                   /\ pc[c].loader = outcome'[c].loader
                   /\ modules' = modules
          /\ \A l \in Loaders :
                (CallsLoader(c, l) /\ ResolvedOn(l) /\ modules[l] = <<>>)
                    => /\ pc'[c].at = "import" /\ pc'[c].loader = l
                       /\ importCount'[l] = importCount[l] + 1
          /\ (pc[c].at = "import" /\ pc'[c].at # "import"
                  /\ outcome'[c].kind # "loadError")
                => modules'[pc[c].loader] = <<ModuleOf(pc[c].loader)>>]_vars

C6_Witness ==
    /\ outcome["b"] = NoOutcome
    /\ importCount["pdfjs"] = 2
    /\ modules["pdfjs"] = <<"pdfjs-dist">>
    /\ outcome["a"].kind = "module" /\ outcome["a"].loader = "pdfjs"

(***************************************************************************)
(* C7: a module reference that is set is never changed again, by            *)
(* closeBrowser or anything else; no further import of that module is       *)
(* started, and a later live call returns the stored module.               *)
(***************************************************************************)
C7_LoadedIsPermanent ==
    [][\A l \in Loaders :
          modules[l] # <<>>
              => /\ modules'[l] = modules[l]
                 /\ importCount'[l] = importCount[l]
                 /\ \A c \in Callers :
                       (CallsLoader(c, l) /\ l # "playwright")
                           => /\ outcome'[c].kind = "module"
                              /\ outcome'[c].value = modules[l][1]]_vars

C7_Witness ==
    /\ modules["playwright"] = <<"playwright-core">>
    /\ browser = <<>>
    /\ outcome["a"].kind = "closed" /\ outcome["a"].id > 0
    /\ modules["sharp"] = <<"sharp">>
    /\ outcome["b"].kind = "module" /\ outcome["b"].loader = "sharp"
    /\ importCount["sharp"] = 1

(***************************************************************************)
(* The synchronous entry points: isXAvailable() and getXInterface() of the  *)
(* five loaders, and getAllInterfaces(), getAvailableFeatures() and         *)
(* printCompatSummary() of the facade (compat/index.ts).  They run to       *)
(* completion in one step.  lastCall records the call: `arg` is the loader, *)
(* `flags` the object that is returned (or printed), `value` a returned     *)
(* scalar or the error that is thrown.                                     *)
(***************************************************************************)
\* mutant: a capability counts as available once its module has been imported
isAvailableResult_Imported(l, flags) ==
    IF loaderFlag(l, flags) = "TypeError" THEN "TypeError"
    ELSE IF modules[l] # <<>> THEN "true"
    ELSE "false"

\* isXAvailable(): the value of the gate ("TypeError" when reading it throws)
isAvailableResult(l, flags) == loaderFlag(l, flags)

\* getXInterface(): the operation set its `if` selects
getInterfaceResult(l, flags) ==
    IF loaderFlag(l, flags) = "TypeError" THEN "TypeError"
    ELSE IF loaderFlag(l, flags) = "true" THEN "live"
    ELSE "stub"

\* mutant: selecting the live operation set already imports the module
modulesAfterInterface_Eager(mods, l, selected) ==
    IF selected = "live" THEN [mods EXCEPT ![l] = <<ModuleOf(l)>>] ELSE mods

\* getXInterface(): the module variables (the live set is an object of
\* function references; nothing is called)
modulesAfterInterface(mods, l, selected) == mods

\* the order in which getAllInterfaces and getAvailableFeatures visit the loaders
LoaderOrder == <<"playwright", "sharp", "baileys", "pdfjs", "llama">>

\* the key of a loader in the object getAllInterfaces returns
interfaceKey(l) ==
    IF l = "playwright" THEN "browser"
    ELSE IF l = "sharp" THEN "image"
    ELSE IF l = "baileys" THEN "whatsapp"
    ELSE IF l = "pdfjs" THEN "pdf"
    ELSE "llama"

\* the key of a loader in the object getAvailableFeatures returns
featureKey(l) ==
    IF l = "playwright" THEN "browser"
    ELSE IF l = "sharp" THEN "imageProcessing"
    ELSE IF l = "baileys" THEN "whatsapp"
    ELSE IF l = "pdfjs" THEN "pdfParsing"
    ELSE "localLLM"

\* one of the getXInterface() calls of getAllInterfaces throws
interfacesThrow(flags) ==
    \E l \in Loaders : getInterfaceResult(l, flags) = "TypeError"

\* getAllInterfaces(): the returned object
getAllInterfacesResult(flags) ==
    [k \in {interfaceKey(l) : l \in Loaders} |->
        getInterfaceResult(CHOOSE l \in Loaders : interfaceKey(l) = k, flags)]

\* getAllInterfaces(): the module variables after the getXInterface() calls
\* from the i-th on, which stop at the first one that throws
RECURSIVE modulesAfterAllInterfaces(_, _, _)
modulesAfterAllInterfaces(mods, flags, i) ==
    IF i > Len(LoaderOrder) \/ getInterfaceResult(LoaderOrder[i], flags) = "TypeError"
    THEN mods
    ELSE modulesAfterAllInterfaces(
             modulesAfterInterface(mods, LoaderOrder[i],
                 getInterfaceResult(LoaderOrder[i], flags)),
             flags, i + 1)

\* one of the isXAvailable() calls of getAvailableFeatures throws
availabilityThrows(flags) ==
    \E l \in Loaders : isAvailableResult(l, flags) = "TypeError"

\* getAvailableFeatures(): the returned object
getAvailableFeaturesResult(flags) ==
    [k \in {featureKey(l) : l \in Loaders} |->
        isAvailableResult(CHOOSE l \in Loaders : featureKey(l) = k, flags)]

\* mutant: the summary reports which modules have actually been imported
printedSummary_Imported(flags) ==
    [k \in {featureKey(l) : l \in Loaders} |->
        IF modules[CHOOSE l \in Loaders : featureKey(l) = k] # <<>>
        THEN "LOADED" ELSE "STUB"]

\* printCompatSummary(): the word printed for each heavy dependency
printedSummary(flags) ==
    [k \in {featureKey(l) : l \in Loaders} |->
        IF getAvailableFeaturesResult(flags)[k] = "true" THEN "LOADED" ELSE "STUB"]

IsAvailable(l) ==
    LET flags == loadFeaturesResult(cachedFeatures, "", env, host)
    IN  /\ cachedFeatures' = loadFeaturesCache(cachedFeatures, "", env, host)
        /\ lastCall' = Call("isAvailable", l, FALSE, "", EmptyObject,
                            isAvailableResult(l, flags))
        /\ UNCHANGED <<env, host, features, result>>
        /\ UNCHANGED loaderVars

GetInterface(l) ==
    LET flags == loadFeaturesResult(cachedFeatures, "", env, host)
    IN  /\ cachedFeatures' = loadFeaturesCache(cachedFeatures, "", env, host)
        /\ modules' = modulesAfterInterface(modules, l, getInterfaceResult(l, flags))
        /\ lastCall' = Call("getInterface", l, FALSE, "", EmptyObject,
                            getInterfaceResult(l, flags))
        /\ UNCHANGED <<env, host, features, result>>
        /\ UNCHANGED <<browser, importCount, launchCount, pc, outcome>>

GetAllInterfaces ==
    LET flags == loadFeaturesResult(cachedFeatures, "", env, host)
    IN  /\ cachedFeatures' = loadFeaturesCache(cachedFeatures, "", env, host)
        /\ modules' = modulesAfterAllInterfaces(modules, flags, 1)
        /\ lastCall' =
              IF interfacesThrow(flags)
              THEN Call("getAllInterfaces", "", FALSE, "", EmptyObject, "TypeError")
              ELSE Call("getAllInterfaces", "", FALSE, "",
                        getAllInterfacesResult(flags), "")
        /\ UNCHANGED <<env, host, features, result>>
        /\ UNCHANGED <<browser, importCount, launchCount, pc, outcome>>

GetAvailableFeatures ==
    LET flags == loadFeaturesResult(cachedFeatures, "", env, host)
    IN  /\ cachedFeatures' = loadFeaturesCache(cachedFeatures, "", env, host)
        /\ lastCall' =
              IF availabilityThrows(flags)
              THEN Call("getAvailableFeatures", "", FALSE, "", EmptyObject, "TypeError")
              ELSE Call("getAvailableFeatures", "", FALSE, "",
                        getAvailableFeaturesResult(flags), "")
        /\ UNCHANGED <<env, host, features, result>>
        /\ UNCHANGED loaderVars

\* getAvailableFeatures() throws before anything is printed
PrintCompatSummary ==
    LET flags == loadFeaturesResult(cachedFeatures, "", env, host)
    IN  /\ cachedFeatures' = loadFeaturesCache(cachedFeatures, "", env, host)
        /\ lastCall' =
              IF availabilityThrows(flags)
              THEN Call("printCompatSummary", "", FALSE, "", EmptyObject, "TypeError")
              ELSE Call("printCompatSummary", "", FALSE, getCurrentProfile(env, host),
                        printedSummary(flags), "")
        /\ UNCHANGED <<env, host, features, result>>
        /\ UNCHANGED loaderVars

\* printFeatureSummary (features.ts:427-449): the heavy features it prints
HeavyFeatures == {"browser", "imageProcessing", "pdfParsing", "localLLM"}

\* `${x ? 'ON' : 'OFF'}`
OnOff(o) == [k \in DOMAIN o |-> IF o[k] = TRUE THEN "ON" ELSE "OFF"]

\* printFeatureSummary: Object.entries(features.channels) throws on flags
\* without channels, Object.entries(features.tools) on flags without tools
featureSummaryThrows(flags) == ~Has(flags, "channels") \/ ~Has(flags, "tools")

\* printFeatureSummary: the lines printed, up to the statement that throws
printedFeatureSummary(flags) ==
    [heavy |-> [k \in HeavyFeatures |-> IF IsOn(flags, k) THEN "ON" ELSE "OFF"],
     channels |-> OnOff(SubObject(flags, "channels")),
     tools |-> IF Has(flags, "channels") THEN OnOff(SubObject(flags, "tools"))
               ELSE EmptyObject]

PrintFeatureSummary ==
    LET flags == loadFeaturesResult(cachedFeatures, "", env, host)
    IN  /\ cachedFeatures' = loadFeaturesCache(cachedFeatures, "", env, host)
        /\ lastCall' =
              Call("printFeatureSummary", "", FALSE, getCurrentProfile(env, host),
                   printedFeatureSummary(flags),
                   IF featureSummaryThrows(flags) THEN "TypeError" ELSE "")
        /\ UNCHANGED <<env, host, features, result>>
        /\ UNCHANGED loaderVars

\* the caller whose asynchronous operations interleave with the synchronous calls
FacadeCallers == {"a"}

NextFacade ==
    \/ ChangeEnv
    \/ \E l \in Loaders : IsAvailable(l)
    \/ \E l \in Loaders : GetInterface(l)
    \/ GetAllInterfaces
    \/ GetAvailableFeatures
    \/ PrintCompatSummary
    \/ PrintFeatureSummary
    \/ \E c \in FacadeCallers :
        \/ \E l \in Loaders : LiveOperation(c, l)
        \/ \E op \in {"launchBrowser", "getBrowser", "newPage"} : BrowserOperation(c, op)
        \/ ImportSettles(c)
        \/ AfterLoad(c)
        \/ LaunchSettles(c)
        \/ CloseBrowser(c)
        \/ CloseSettles(c)

SpecFacade == Init /\ [][NextFacade]_vars

(***************************************************************************)
(* C11: no synchronous entry point imports anything.  An import() of a      *)
(* loader's module is started only by a caller that enters a live           *)
(* operation of that loader while its capability resolves to enabled; a     *)
(* module reference is set only when such an import settles; a step that    *)
(* records a synchronous call leaves every loader variable as it was.       *)
(***************************************************************************)
C11_OnlyLiveOperationsImport ==
    [][/\ \A l \in Loaders :
            importCount'[l] # importCount[l]
                => /\ importCount'[l] = importCount[l] + 1
                   /\ ResolvedOn(l)
                   /\ \E c \in Callers :
                         /\ pc[c] = Idle
                         /\ pc'[c].at = "import" /\ pc'[c].loader = l
       /\ \A l \in Loaders :
            modules'[l] # modules[l]
                => \E c \in Callers :
                      /\ pc[c].at = "import" /\ pc[c].loader = l
                      /\ pc'[c].at # "import"
       /\ lastCall' # lastCall => UNCHANGED loaderVars]_vars

C11_Witness ==
    /\ lastCall.op = "getAllInterfaces"
    /\ lastCall.value = ""
    /\ lastCall.flags["image"] = "live"
    /\ lastCall.flags["browser"] = "live"
    /\ importCount["sharp"] = 0 /\ modules["sharp"] = <<>>
    /\ importCount["playwright"] = 0 /\ modules["playwright"] = <<>>
    /\ importCount["pdfjs"] = 1 /\ modules["pdfjs"] = <<"pdfjs-dist">>

(***************************************************************************)
(* C12 as stated: every getXInterface() call returns the live operation set *)
(* when the loader's capability is on in the flags the resolver answers     *)
(* from at that moment, and the stub operation set otherwise.               *)
(***************************************************************************)
C12_InterfaceFollowsFlags ==
    [][(lastCall' # lastCall /\ lastCall'.op = "getInterface")
          => lastCall'.value =
                 IF ResolvedOn(lastCall'.arg) THEN "live" ELSE "stub"]_vars

(***************************************************************************)
(* C13 as stated: a live operation that is called while the capability of   *)
(* its loader is not enabled ends at once, without an import, in that       *)
(* loader's capability-disabled error, which quotes the current profile     *)
(* name and ends with a remediation hint; the module references stay as     *)
(* they were.                                                              *)
(***************************************************************************)
C13_DisabledCallFailsDisabled ==
    [][\A c \in Callers : \A l \in Loaders :
          (CallsLoader(c, l) /\ ~ResolvedOn(l))
              => /\ pc'[c] = Idle
                 /\ thrownName(outcome'[c]) = DisabledErrorName(l)
                 /\ outcome'[c].value = getCurrentProfile(env, host)
                 /\ disabledHint(l) # ""
                 /\ modules' = modules
                 /\ importCount' = importCount]_vars

\* in this step the import() that caller c awaited is rejected
ImportFails(c) ==
    /\ pc[c].at = "import"
    /\ pc'[c] = Idle
    /\ outcome'[c].kind # "module"

(***************************************************************************)
(* C14: when the import of an enabled capability's module is rejected, the  *)
(* operation ends in an error whose name is not the name of any             *)
(* capability-disabled error, and whose message names the package and       *)
(* carries the text of the cause; an operation ends in a                    *)
(* capability-disabled error only when it is called with the capability     *)
(* not enabled.                                                            *)
(***************************************************************************)
C14_LoadErrorIsDistinct ==
    [][\A c \in Callers :
          /\ ImportFails(c)
                => /\ ResolvedOn(pc[c].loader)
                   /\ thrownName(outcome'[c]) = "Error"
                   /\ thrownName(outcome'[c])
                         \notin {DisabledErrorName(l) : l \in Loaders}
                   /\ outcome'[c].loader = pc[c].loader
                   /\ outcome'[c].value \in ImportFailures
          /\ (outcome'[c] # outcome[c]
                  /\ thrownName(outcome'[c]) \in {DisabledErrorName(l) : l \in Loaders})
                => /\ pc[c] = Idle
                   /\ ~ResolvedOn(outcome'[c].loader)]_vars

C14_Witness ==
    /\ outcome["a"].kind = "loadError"
    /\ outcome["a"].loader = "sharp"
    /\ outcome["a"].value = "ERR_DLOPEN_FAILED"
    /\ modules["sharp"] = <<>>
    /\ thrownName(outcome["b"]) = "BrowserDisabledError"
    /\ outcome["b"].value = "default"

(***************************************************************************)
(* C15: with MOLTBOT_DISABLE_BROWSER=1 the flags returned by                *)
(* applyEnvOverrides have browser, tools.browser, tools.webScrape and       *)
(* tools.screenshot present and false; with MOLTBOT_DISABLE_SHARP=1 they    *)
(* have imageProcessing and tools.imageEdit present and false; whatever     *)
(* the base profile.                                                       *)
(***************************************************************************)
C15_DisableCascades ==
    result # <<>> =>
        /\ env.MOLTBOT_DISABLE_BROWSER = "1"
              => /\ Shown(result[1], "browser") = "false"
                 /\ Has(result[1], "tools")
                 /\ \A t \in {"browser", "webScrape", "screenshot"} :
                        Shown(result[1].tools, t) = "false"
        /\ env.MOLTBOT_DISABLE_SHARP = "1"
              => /\ Shown(result[1], "imageProcessing") = "false"
                 /\ Has(result[1], "tools")
                 /\ Shown(result[1].tools, "imageEdit") = "false"

C15_Witness ==
    /\ result # <<>>
    /\ features = defaultFeatures
    /\ env.MOLTBOT_DISABLE_BROWSER = "1"
    /\ env.MOLTBOT_DISABLE_SHARP = "1"
    /\ ~result[1].browser /\ ~result[1].imageProcessing
    /\ result[1].tools =
          [bash |-> TRUE, files |-> TRUE, webScrape |-> FALSE,
           screenshot |-> FALSE, browser |-> FALSE, imageEdit |-> FALSE]

(***************************************************************************)
(* C16: every flag outside the cascades of the overrides that are set is    *)
(* the same in applyEnvOverrides(P) as in P: disable-browser touches        *)
(* browser and the tools browser, webScrape, screenshot; disable-image-     *)
(* processing touches imageProcessing and the tool imageEdit; disable-      *)
(* terminal-ui touches tui; the channel list touches the channels only.     *)
(***************************************************************************)
C16_OverridesKeepTheRest ==
    result # <<>> =>
        LET b == env.MOLTBOT_DISABLE_BROWSER = "1"
            s == env.MOLTBOT_DISABLE_SHARP = "1"
            t == env.MOLTBOT_DISABLE_TUI = "1"
            touchedFeatures ==
                (IF b THEN {"browser"} ELSE {})
                    \cup (IF s THEN {"imageProcessing"} ELSE {})
                    \cup (IF t THEN {"tui"} ELSE {})
            touchedTools ==
                (IF b THEN {"browser", "webScrape", "screenshot"} ELSE {})
                    \cup (IF s THEN {"imageEdit"} ELSE {})
        IN  /\ \A k \in FeatureNames \ touchedFeatures :
                   Shown(result[1], k) = Shown(features, k)
            /\ \A k \in ToolNames \ touchedTools :
                   Shown(SubObject(result[1], "tools"), k)
                       = Shown(SubObject(features, "tools"), k)
            /\ (~b /\ ~s) => Has(result[1], "tools") = Has(features, "tools")
            /\ env.MOLTBOT_CHANNELS = <<>>
                  => /\ Has(result[1], "channels") = Has(features, "channels")
                     /\ \A c \in ChannelNames :
                            Shown(SubObject(result[1], "channels"), c)
                                = Shown(SubObject(features, "channels"), c)

C16_Witness ==
    /\ result # <<>>
    /\ features = defaultFeatures
    /\ env.MOLTBOT_DISABLE_BROWSER = "1"
    /\ env.MOLTBOT_DISABLE_SHARP = ""
    /\ env.MOLTBOT_DISABLE_TUI = "1"
    /\ env.MOLTBOT_CHANNELS = <<"whatsapp">>
    /\ ~result[1].browser /\ ~result[1].tools.browser /\ ~result[1].tui
    /\ result[1].tools.files /\ result[1].tools.bash
    /\ result[1].imageProcessing /\ result[1].tools.imageEdit
    /\ result[1].controlUI /\ result[1].cron
    /\ result[1].channels.whatsapp /\ ~result[1].channels.telegram

(***************************************************************************)
(* C17: applyEnvOverrides applied, under the same environment, to the flags *)
(* it returned gives those flags again.                                    *)
(***************************************************************************)
C17_Idempotent ==
    result # <<>> => applyEnvOverrides(result[1], env) = result[1]

C17_Witness ==
    /\ result # <<>>
    /\ features = defaultFeatures
    /\ env.MOLTBOT_DISABLE_BROWSER = "1"
    /\ env.MOLTBOT_DISABLE_SHARP = "1"
    /\ env.MOLTBOT_DISABLE_TUI = "1"
    /\ env.MOLTBOT_CHANNELS = <<"telegram", ",", "x">>
    /\ result[1] # features
    /\ ~result[1].tui /\ ~result[1].channels.whatsapp
    /\ applyEnvOverrides(result[1], env) = result[1]

(***************************************************************************)
(* C18: with MOLTBOT_CHANNELS set, every channel whose name does not stand  *)
(* alone between separators in the list is present and false in the flags   *)
(* returned by applyEnvOverrides, whatever its value in the base profile.   *)
(***************************************************************************)
C18_UnlistedChannelsOff ==
    (result # <<>> /\ env.MOLTBOT_CHANNELS # <<>>)
        => \A c \in ChannelNames :
               ~NamedInList(env.MOLTBOT_CHANNELS, c)
                   => /\ Has(result[1], "channels")
                      /\ Shown(result[1].channels, c) = "false"

C18_Witness ==
    /\ result # <<>>
    /\ features = defaultFeatures
    /\ env.MOLTBOT_CHANNELS = <<"x", "whatsapp">>
    /\ \A c \in ChannelNames : features.channels[c] /\ ~result[1].channels[c]

(***************************************************************************)
(* The profile name: loadFeatures and getCurrentProfile on every kind of    *)
(* machine and under every setting of the two profile variables.  The      *)
(* record of a getCurrentProfile() call keeps in `arg` the forced name of   *)
(* the loadFeatures call it follows ("" when that load was not forced).     *)
(***************************************************************************)
ModelFiles ==
    {<<>>,
     <<PiZeroModel>>,
     << <<"raspberry", " ", "pi", " ", "x">> >>,
     << <<"Raspberry", "Pi">> >>,
     << <<"Orange", " ", "Pi", " ", "Zero">> >>}

DetectHosts ==
    {[platform |-> p, model |-> m, totalmem |-> t] :
        p \in {"linux", "darwin"}, m \in ModelFiles,
        t \in {1024, 1198, 1199, 1200, 8192}}

ProfileEnvs ==
    {[UnsetEnv EXCEPT !.MOLTBOT_PROFILE = m, !.CLAWDBOT_PROFILE = c] :
        m \in ProfileValues, c \in ProfileValues}

InitProfile ==
    /\ env \in ProfileEnvs
    /\ host \in DetectHosts
    /\ cachedFeatures = <<>>
    /\ features = EmptyObject
    /\ result = <<>>
    /\ lastCall = NoCall
    /\ InitLoaders

GetCurrentProfile ==
    /\ lastCall' =
          Call("getCurrentProfile",
               IF lastCall.op \in {"loadFeatures", "getCurrentProfile"}
               THEN lastCall.arg ELSE "",
               FALSE, "", EmptyObject, getCurrentProfile(env, host))
    /\ UNCHANGED <<env, host, cachedFeatures, features, result>>
    /\ UNCHANGED loaderVars

NextProfile ==
    \/ LoadFeatures
    \/ GetCurrentProfile

SpecProfile == InitProfile /\ [][NextProfile]_vars

(***************************************************************************)
(* C19 as stated: getCurrentProfile() called after a forced-profile         *)
(* resolution returns the forced profile name.                             *)
(***************************************************************************)
C19_ReturnsForcedName ==
    (lastCall.op = "getCurrentProfile" /\ lastCall.arg # "")
        => lastCall.value = lastCall.arg

(***************************************************************************)
(* C19 amended: getCurrentProfile() returns MOLTBOT_PROFILE when that is    *)
(* not empty, else CLAWDBOT_PROFILE when that is not empty, else the name   *)
(* host detection selects, whether or not a forced load came before; it     *)
(* changes nothing.                                                        *)
(***************************************************************************)
C19_NameIgnoresForcedLoad ==
    [][(lastCall' # lastCall /\ lastCall'.op = "getCurrentProfile")
          => /\ lastCall'.value =
                    IF env.MOLTBOT_PROFILE # "" THEN env.MOLTBOT_PROFILE
                    ELSE IF env.CLAWDBOT_PROFILE # "" THEN env.CLAWDBOT_PROFILE
                    ELSE detectProfile(host)
             /\ UNCHANGED <<env, host, cachedFeatures>>]_vars

C19_Witness ==
    /\ lastCall.op = "getCurrentProfile"
    /\ lastCall.arg = "iot"
    /\ env.MOLTBOT_PROFILE = "" /\ env.CLAWDBOT_PROFILE = "raspberry-pi"
    /\ lastCall.value = "raspberry-pi"
    /\ cachedFeatures = <<>>

(***************************************************************************)
(* C20: a load that falls through to host detection (no forced name, both   *)
(* profile variables empty) selects the raspberry-pi profile exactly when   *)
(* the platform is Linux, the device-model file can be read and names a     *)
(* Raspberry Pi in any letter case, and the total memory in whole megabytes *)
(* is below 600; in every other case it selects the default profile.        *)
(***************************************************************************)
C20_DetectsConstrainedHost ==
    [][(lastCall' # lastCall
            /\ lastCall'.op = "loadFeatures" /\ lastCall'.computed
            /\ lastCall'.arg = ""
            /\ env.MOLTBOT_PROFILE = "" /\ env.CLAWDBOT_PROFILE = "")
          => LET pi ==
                     /\ host.platform = "linux"
                     /\ host.model # <<>>
                     /\ includesText(toLowerCase(host.model[1]),
                                     <<"raspberry", " ", "pi">>)
                 low == getTotalMemoryMB(host) < LowMemoryMB
             IN  /\ lastCall'.profile =
                        IF pi /\ low THEN "raspberry-pi" ELSE "default"
                 /\ lastCall'.flags =
                        applyEnvOverrides(
                            IF pi /\ low THEN raspberryPiFeatures ELSE defaultFeatures,
                            env)]_vars

C20_Witness ==
    /\ lastCall.op = "loadFeatures" /\ lastCall.computed /\ lastCall.arg = ""
    /\ env.MOLTBOT_PROFILE = "" /\ env.CLAWDBOT_PROFILE = ""
    /\ host.platform = "linux"
    /\ host.model = <<PiZeroModel>>
    /\ host.totalmem = 1198
    /\ lastCall.profile = "raspberry-pi"
    /\ cachedFeatures = <<raspberryPiFeatures>>

\* the callers that are awaiting a chromium.launch() they started
Launching == {c \in Callers : pc[c].at = "launch"}

(***************************************************************************)
(* C21 as stated: at most one browser launch is in progress at any time;    *)
(* a second concurrent caller starts no launch of its own.                 *)
(***************************************************************************)
C21_OneLaunchInFlight == Cardinality(Launching) <= 1

\* this step is a call of one of the two diagnostic summaries
PrintsSummary ==
    /\ lastCall' # lastCall
    /\ lastCall'.op \in {"printCompatSummary", "printFeatureSummary"}

(***************************************************************************)
(* C22 as stated: a call of printCompatSummary or printFeatureSummary       *)
(* leaves the flags cache and every loader's module reference as they were. *)
(***************************************************************************)
C22_SummaryChangesNothing ==
    [][PrintsSummary => UNCHANGED <<cachedFeatures, modules>>]_vars

(***************************************************************************)
(* C22 amended: a call of either summary changes no loader state (module    *)
(* references, browser, import and launch counters, pending operations)     *)
(* and no environment variable; it leaves a filled flags cache as it is     *)
(* and fills an empty one with the flags resolved from the environment and  *)
(* the host at that moment, and it reports a capability as on exactly when  *)
(* those flags have it on.                                                 *)
(***************************************************************************)
C22_SummaryOnlyFillsCache ==
    [][PrintsSummary
          => /\ UNCHANGED <<env, host>>
             /\ UNCHANGED loaderVars
             /\ cachedFeatures' =
                    IF cachedFeatures # <<>> THEN cachedFeatures
                    ELSE <<computeFeatures("", env, host)>>
             /\ (lastCall'.op = "printCompatSummary" /\ lastCall'.value = "")
                   => \A l \in Loaders :
                         lastCall'.flags[featureKey(l)] =
                             IF ResolvedOn(l) THEN "LOADED" ELSE "STUB"
             /\ lastCall'.op = "printFeatureSummary"
                   => \A l \in Loaders \ {"baileys"} :
                         lastCall'.flags.heavy[featureKey(l)] =
                             IF ResolvedOn(l) THEN "ON" ELSE "OFF"]_vars

C22_Witness ==
    /\ lastCall.op = "printCompatSummary"
    /\ lastCall.value = ""
    /\ lastCall.flags["pdfParsing"] = "LOADED"
    /\ modules["pdfjs"] = <<>>
    /\ cachedFeatures = <<defaultFeatures>>
    /\ env.MOLTBOT_PROFILE = "raspberry-pi"
    /\ outcome["a"] = NoOutcome

(***************************************************************************)
(* The stub operation sets (browserStubs, imageStubs, whatsAppStubs,        *)
(* pdfStubs, llamaStubs).  They are exported constants, so a caller can     *)
(* hold one, and call its operations, whatever the flags are now.  The      *)
(* record of a stub call keeps the operation in `arg`, the profile name its *)
(* message quotes in `profile`, a returned object in `flags`, and in        *)
(* `value` the name of a thrown error, a returned scalar, or "" when an     *)
(* object is returned.                                                     *)
(***************************************************************************)
\* the operations of a loader's stub set that throw its XDisabledError
stubThrows(l) ==
    IF l = "playwright" THEN {"launchBrowser", "getBrowser", "newPage"}
    ELSE IF l = "sharp" THEN {"createSharpInstance"}
    ELSE IF l = "baileys" THEN {"loadBaileys", "createWhatsAppSocket"}
    ELSE IF l = "pdfjs" THEN {"loadPdfjs", "loadPDFDocument"}
    ELSE {"loadLlama", "loadModel"}

\* the operations that return { error: `... disabled in "<profile>" profile ...` }
stubReturnsError(l) ==
    IF l = "playwright" THEN {"screenshot", "scrape"}
    ELSE IF l = "sharp" THEN {"resizeImage", "convertImage"}
    ELSE IF l = "baileys" THEN {}
    ELSE IF l = "pdfjs" THEN {"extractPDFText", "getPDFMetadata"}
    ELSE {"generateLocalEmbeddings", "generateCompletion"}

\* the operations that return the disabled notice as a plain string
stubReturnsMessage(l) ==
    IF l = "baileys" THEN {"getDisabledMessage"}
    ELSE IF l = "llama" THEN {"getRecommendation"}
    ELSE {}

\* the stub's own isXAvailable
stubIsAvailable(l) ==
    IF l = "playwright" THEN "isBrowserAvailable"
    ELSE IF l = "sharp" THEN "isImageProcessingAvailable"
    ELSE IF l = "baileys" THEN "isWhatsAppAvailable"
    ELSE IF l = "pdfjs" THEN "isPDFParsingAvailable"
    ELSE "isLocalLLMAvailable"

\* the remaining operation: imageStubs.getImageMetadata
stubReturnsPartial(l) == IF l = "sharp" THEN {"getImageMetadata"} ELSE {}

stubOperations(l) ==
    stubThrows(l) \cup stubReturnsError(l) \cup stubReturnsMessage(l)
        \cup {stubIsAvailable(l)} \cup stubReturnsPartial(l)

\* detectImageFormat (lazy-sharp.ts:209-248) on the bytes of a buffer;
\* "undefined" when no magic number matches
detectImageFormat(bytes) ==
    IF Len(bytes) < 4 THEN "undefined"
    ELSE IF bytes[1] = 255 /\ bytes[2] = 216 /\ bytes[3] = 255 THEN "jpeg"
    ELSE IF bytes[1] = 137 /\ bytes[2] = 80 /\ bytes[3] = 78 /\ bytes[4] = 71 THEN "png"
    ELSE IF bytes[1] = 71 /\ bytes[2] = 73 /\ bytes[3] = 70 THEN "gif"
    ELSE IF bytes[1] = 82 /\ bytes[2] = 73 /\ bytes[3] = 70 /\ bytes[4] = 70
            /\ Len(bytes) >= 12
            /\ bytes[9] = 87 /\ bytes[10] = 69 /\ bytes[11] = 66 /\ bytes[12] = 80
         THEN "webp"
    ELSE "undefined"

\* the argument of getImageMetadata: a Buffer with its bytes, or a file path
ImageInputs ==
    {[buffer |-> FALSE, bytes |-> <<>>],
     [buffer |-> TRUE, bytes |-> <<137, 80, 78, 71>>],
     [buffer |-> TRUE, bytes |-> <<255, 216, 255, 224>>],
     [buffer |-> TRUE, bytes |-> <<71, 73, 70, 56>>],
     [buffer |-> TRUE, bytes |-> <<82, 73, 70, 70, 0, 0, 0, 0, 87, 69, 66, 80>>],
     [buffer |-> TRUE, bytes |-> <<137, 80>>]}

\* imageStubs.getImageMetadata (lazy-sharp.ts:190-199)
stubImageMetadata(input) ==
    IF input.buffer THEN [format |-> detectImageFormat(input.bytes)] ELSE EmptyObject

\* the object a stub operation returns (the empty object when it returns none)
stubObject(l, op, input, name) ==
    IF op \in stubReturnsError(l)
    THEN IF l = "llama"
         THEN [error |-> name, fallback |-> "Use an API instead."]
         ELSE [error |-> name]
    ELSE IF op \in stubReturnsPartial(l) THEN stubImageMetadata(input)
    ELSE EmptyObject

\* the error name a stub operation throws, or the scalar it returns
stubValue(l, op) ==
    IF op \in stubThrows(l) THEN DisabledErrorName(l)
    ELSE IF op = stubIsAvailable(l) THEN "false"
    ELSE IF op \in stubReturnsMessage(l) THEN "message"
    ELSE ""

\* one call of operation op of the stub set of loader l
StubOperation(l, op) ==
    \E input \in (IF op \in stubReturnsPartial(l) THEN ImageInputs
                  ELSE {[buffer |-> FALSE, bytes |-> <<>>]}) :
        /\ lastCall' =
              Call("stub", op, FALSE,
                   IF op = stubIsAvailable(l) \/ op \in stubReturnsPartial(l) THEN ""
                   ELSE getCurrentProfile(env, host),
                   stubObject(l, op, input, getCurrentProfile(env, host)),
                   stubValue(l, op))
        /\ lastCall' # lastCall
        /\ UNCHANGED <<env, host, cachedFeatures, features, result>>
        /\ UNCHANGED loaderVars

NextStubs ==
    \/ \E l \in Loaders : \E op \in stubOperations(l) : StubOperation(l, op)
    \/ \E c \in FacadeCallers :
        \/ \E l \in Loaders : LiveOperation(c, l)
        \/ ImportSettles(c)

SpecStubs == Init /\ [][NextStubs]_vars

\* the loader whose stub set has the operation
StubLoader(op) == CHOOSE l \in Loaders : op \in stubOperations(l)

\* this step is a call of a stub operation
CallsStub == lastCall' # lastCall /\ lastCall'.op = "stub"

(***************************************************************************)
(* C23 as stated: every call of a stub operation leaves the loader state    *)
(* (module references, import counters) as it was, and either throws the    *)
(* loader's capability-disabled error, or returns a disabled result (an     *)
(* object with an `error` entry, or the disabled notice) that quotes the    *)
(* current profile name, or is the stub's isXAvailable and returns false.   *)
(***************************************************************************)
C23_StubsOnlyReportDisabled ==
    [][CallsStub
          => LET l == StubLoader(lastCall'.arg)
             IN  /\ UNCHANGED loaderVars
                 /\ UNCHANGED cachedFeatures
                 /\ \/ lastCall'.value = DisabledErrorName(l)
                    \/ /\ lastCall'.value = ""
                       /\ Has(lastCall'.flags, "error")
                       /\ lastCall'.flags["error"] = getCurrentProfile(env, host)
                    \/ /\ lastCall'.value = "message"
                       /\ lastCall'.profile = getCurrentProfile(env, host)
                    \/ /\ lastCall'.arg = stubIsAvailable(l)
                       /\ lastCall'.value = "false"]_vars

(***************************************************************************)
(* C24: getAvailableFeatures() and getAllInterfaces() answer from the same  *)
(* flags.  A call of getAvailableFeatures reports a capability as available *)
(* exactly when the capability is on in the flags in effect, a call of      *)
(* getAllInterfaces returns the live operation set for exactly those        *)
(* capabilities, and either call throws exactly when the other would (the   *)
(* flags have no channels object).                                         *)
(***************************************************************************)
C24_SnapshotMatchesInterfaces ==
    [][/\ (lastCall' # lastCall /\ lastCall'.op = "getAvailableFeatures")
            => IF ~Has(UnforcedFlags, "channels")
               THEN lastCall'.value = "TypeError"
               ELSE /\ lastCall'.value = ""
                    /\ \A l \in Loaders :
                          lastCall'.flags[featureKey(l)] =
                              IF ResolvedOn(l) THEN "true" ELSE "false"
       /\ (lastCall' # lastCall /\ lastCall'.op = "getAllInterfaces")
            => IF ~Has(UnforcedFlags, "channels")
               THEN lastCall'.value = "TypeError"
               ELSE /\ lastCall'.value = ""
                    /\ \A l \in Loaders :
                          lastCall'.flags[interfaceKey(l)] =
                              IF ResolvedOn(l) THEN "live" ELSE "stub"]_vars

C24_Witness ==
    /\ lastCall.op = "getAvailableFeatures"
    /\ lastCall.value = ""
    /\ lastCall.flags =
          [browser |-> "false", imageProcessing |-> "true", whatsapp |-> "true",
           pdfParsing |-> "true", localLLM |-> "false"]
    /\ modules["sharp"] = <<>>
    /\ modules["pdfjs"] = <<"pdfjs-dist">>
    /\ env.MOLTBOT_PROFILE = "raspberry-pi"

(***************************************************************************)
(* The profile name while the surroundings change: loadFeatures and         *)
(* getCurrentProfile interleaved with changes of the environment variables  *)
(* and of the host readings.                                               *)
(***************************************************************************)
NextName ==
    \/ SetEnv
    \/ SetHost
    \/ LoadFeatures
    \/ GetCurrentProfile

SpecName == InitResolver /\ [][NextName]_vars

\* the flags f have every feature that no override writes as the profile p has it
SameBase(f, p) ==
    \A k \in FeatureNames \ {"browser", "imageProcessing", "tui"} :
        Shown(f, k) = Shown(p, k)

\* the first non-empty of the two profile variables, else the detected name
NameNow ==
    IF env.MOLTBOT_PROFILE # "" THEN env.MOLTBOT_PROFILE
    ELSE IF env.CLAWDBOT_PROFILE # "" THEN env.CLAWDBOT_PROFILE
    ELSE detectProfile(host)

(***************************************************************************)
(* C25 as stated: whenever getCurrentProfile() is called while flags are    *)
(* cached, the name it returns is the name of the profile those flags were  *)
(* resolved from: the flags agree with that profile on every feature that   *)
(* no override writes.                                                     *)
(***************************************************************************)
C25_NameIsResolvedProfile ==
    [][(lastCall' # lastCall /\ lastCall'.op = "getCurrentProfile"
            /\ cachedFeatures # <<>>)
          => SameBase(cachedFeatures[1], selectFeatures(lastCall'.value))]_vars

(***************************************************************************)
(* C25 amended: getCurrentProfile() returns the name that an unforced       *)
(* resolution would use in the environment and on the host of the moment    *)
(* of the call (MOLTBOT_PROFILE, else CLAWDBOT_PROFILE, else host           *)
(* detection), cached flags or not; and a step that fills the flags cache   *)
(* stores the flags of the profile registered under that name (the default  *)
(* profile for a name that has no entry) with the overrides applied.        *)
(***************************************************************************)
C25_NameIsResolutionNameNow ==
    [][/\ (lastCall' # lastCall /\ lastCall'.op = "getCurrentProfile")
            => /\ lastCall'.value = NameNow
               /\ UNCHANGED <<env, host, cachedFeatures>>
       /\ (cachedFeatures = <<>> /\ cachedFeatures' # <<>>)
            => /\ lastCall'.profile = NameNow
               /\ cachedFeatures'[1] = applyEnvOverrides(selectFeatures(NameNow), env)
               /\ SameBase(cachedFeatures'[1], selectFeatures(NameNow))]_vars

C25_Witness ==
    /\ lastCall.op = "getCurrentProfile"
    /\ lastCall.value = "raspberry-pi"
    /\ env.MOLTBOT_PROFILE = "raspberry-pi"
    /\ cachedFeatures = <<defaultFeatures>>

(***************************************************************************)
(* The registry: the lookup `profiles[profile] || defaultFeatures` of       *)
(* loadFeatures (features.ts:260) for every registered name, an unknown     *)
(* name and an inherited key, followed by applyEnvOverrides under every     *)
(* combination of the override variables.                                  *)
(***************************************************************************)
NameSamples == RegisteredNames \cup {"bogus-profile", "constructor"}

InitRegistry ==
    /\ env \in OverrideEnvs
    /\ host = DefaultHost
    /\ cachedFeatures = <<>>
    /\ features = EmptyObject
    /\ result = <<>>
    /\ lastCall = NoCall
    /\ InitLoaders

\* const features = profiles[profile] || defaultFeatures
SelectFeatures ==
    \E name \in NameSamples :
        /\ lastCall' = Call("selectFeatures", name, FALSE, name, EmptyObject, "")
        /\ lastCall' # lastCall
        /\ features' = selectFeatures(name)
        /\ result' = <<>>
        /\ UNCHANGED <<env, host, cachedFeatures>>
        /\ UNCHANGED loaderVars

NextRegistry ==
    \/ SelectFeatures
    \/ ApplyEnvOverrides

SpecRegistry == InitRegistry /\ [][NextRegistry]_vars

\* f has an own boolean entry for every feature, channel and tool identifier
Complete(f) ==
    /\ \A k \in FeatureNames : Has(f, k) /\ f[k] \in BOOLEAN
    /\ Has(f, "channels")
    /\ \A c \in ChannelNames : Has(f.channels, c) /\ f.channels[c] \in BOOLEAN
    /\ Has(f, "tools")
    /\ \A t \in ToolNames : Has(f.tools, t) /\ f.tools[t] \in BOOLEAN

(***************************************************************************)
(* C26: the flags object selected for a registered profile name (default,   *)
(* raspberry-pi, rpi, lite, embedded, iot) has an explicit boolean for      *)
(* every feature, every channel and every tool identifier, and so have the  *)
(* flags that applyEnvOverrides makes of it: every lookup of a known        *)
(* identifier answers true or false.                                       *)
(***************************************************************************)
C26_RegistryIsComplete ==
    (lastCall.op = "selectFeatures" /\ lastCall.arg \in RegisteredNames)
        => /\ Complete(features)
           /\ result # <<>>
                 => /\ Complete(result[1])
                    /\ \A k \in FeatureNames :
                          isFeatureEnabledResult(result[1], k) \in {"true", "false"}
                             /\ Shown(result[1], k) # "undefined"
                    /\ \A c \in ChannelNames :
                          isChannelEnabledResult(result[1], c) \in {"true", "false"}
                    /\ \A t \in ToolNames :
                          isToolEnabledResult(result[1], t) \in {"true", "false"}

C26_Witness ==
    /\ lastCall.op = "selectFeatures"
    /\ lastCall.arg = "lite"
    /\ features = raspberryPiFeatures
    /\ result # <<>>
    /\ env.MOLTBOT_CHANNELS = <<"whatsapp">>
    /\ Complete(result[1])
    /\ result[1].channels.whatsapp /\ ~result[1].channels.telegram

(***************************************************************************)
(* getProfileRecommendation (features.ts:394-422) on hosts of different     *)
(* memory sizes.  The record of a call keeps the recommended name in        *)
(* `profile`, the reason in `value`, the reported memoryMB in `flags`, and, *)
(* when the call follows another recommendation, that one's name in `arg`   *)
(* and memoryMB in `flags.previousMB`.                                      *)
(***************************************************************************)
LimitedMemoryMB == 1500

\* mutant: the recommendation knows only the constrained and the default tier
getProfileRecommendation_TwoTiers(h) ==
    IF getTotalMemoryMB(h) < LowMemoryMB
    THEN [profile |-> "raspberry-pi", reason |-> "Low memory detected (<600MB)",
          memoryMB |-> getTotalMemoryMB(h)]
    ELSE [profile |-> "default", reason |-> "Sufficient memory for full features",
          memoryMB |-> getTotalMemoryMB(h)]

getProfileRecommendation(h) ==
    IF getTotalMemoryMB(h) < LowMemoryMB
    THEN [profile |-> "raspberry-pi", reason |-> "Low memory detected (<600MB)",
          memoryMB |-> getTotalMemoryMB(h)]
    ELSE IF getTotalMemoryMB(h) < LimitedMemoryMB
    THEN [profile |-> "lite", reason |-> "Limited memory detected (<1.5GB)",
          memoryMB |-> getTotalMemoryMB(h)]
    ELSE [profile |-> "default", reason |-> "Sufficient memory for full features",
          memoryMB |-> getTotalMemoryMB(h)]

\* os.totalmem() in units of 512 KiB: nothing, 500 MB, the values around
\* 600 MB, 1000 MB, the values around 1500 MB, 4000 MB
MemorySamples == {0, 1000, 1198, 1199, 1200, 2000, 2998, 2999, 3000, 8000}

InitRecommend ==
    /\ env = UnsetEnv
    /\ host \in {[DefaultHost EXCEPT !.totalmem = t] : t \in MemorySamples}
    /\ cachedFeatures = <<>>
    /\ features = EmptyObject
    /\ result = <<>>
    /\ lastCall = NoCall
    /\ InitLoaders

\* memory is added to or taken from the machine between two calls
SetMemory ==
    /\ \E t \in MemorySamples \ {host.totalmem} :
          host' = [host EXCEPT !.totalmem = t]
    /\ UNCHANGED <<env, cachedFeatures, features, result, lastCall>>
    /\ UNCHANGED loaderVars

GetProfileRecommendation ==
    LET r == getProfileRecommendation(host)
        follows == lastCall.op = "getProfileRecommendation"
    IN  /\ lastCall' =
              Call("getProfileRecommendation",
                   IF follows THEN lastCall.profile ELSE "",
                   FALSE, r.profile,
                   [memoryMB |-> r.memoryMB,
                    previousMB |-> IF follows THEN lastCall.flags.memoryMB
                                   ELSE r.memoryMB],
                   r.reason)
        /\ lastCall' # lastCall
        /\ UNCHANGED <<env, host, cachedFeatures, features, result>>
        /\ UNCHANGED loaderVars

NextRecommend ==
    \/ SetMemory
    \/ GetProfileRecommendation

SpecRecommend == InitRecommend /\ [][NextRecommend]_vars

\* the tiers in ascending order of the memory they are recommended for
TierRank(name) ==
    IF name = "raspberry-pi" THEN 0 ELSE IF name = "lite" THEN 1 ELSE 2

(***************************************************************************)
(* C27: getProfileRecommendation recommends raspberry-pi when the total     *)
(* memory in whole megabytes is below 600, lite when it is at least 600     *)
(* and below 1500, and default when it is 1500 or more; of two consecutive  *)
(* recommendations the one for the larger memory never names a lower tier.  *)
(***************************************************************************)
C27_ThreeTiers ==
    lastCall.op = "getProfileRecommendation"
        => /\ lastCall.profile =
                  IF lastCall.flags.memoryMB < 600 THEN "raspberry-pi"
                  ELSE IF lastCall.flags.memoryMB < 1500 THEN "lite"
                  ELSE "default"
           /\ (lastCall.arg # "" /\ lastCall.flags.previousMB <= lastCall.flags.memoryMB)
                 => TierRank(lastCall.arg) <= TierRank(lastCall.profile)
           /\ (lastCall.arg # "" /\ lastCall.flags.previousMB >= lastCall.flags.memoryMB)
                 => TierRank(lastCall.arg) >= TierRank(lastCall.profile)

C27_Witness ==
    /\ lastCall.op = "getProfileRecommendation"
    /\ lastCall.arg = "raspberry-pi"
    /\ lastCall.flags = [memoryMB |-> 1000, previousMB |-> 500]
    /\ lastCall.profile = "lite"
    /\ host.totalmem = 8000
    /\ getProfileRecommendation(host).profile = "default"

(***************************************************************************)
(* The loaders under the raspberry-pi profile: the process is started with  *)
(* MOLTBOT_PROFILE set to raspberry-pi or one of its aliases and with any   *)
(* combination of the override variables; one caller uses the interfaces    *)
(* and the live operations.  Nothing gets as far as a browser launch, so    *)
(* the steps after a loaded playwright module do not occur.                 *)
(***************************************************************************)
PiNames == {"raspberry-pi", "rpi", "lite"}

PiEnvs ==
    {[UnsetEnv EXCEPT !.MOLTBOT_PROFILE = n, !.MOLTBOT_DISABLE_BROWSER = b,
                      !.MOLTBOT_DISABLE_SHARP = s, !.MOLTBOT_DISABLE_TUI = t,
                      !.MOLTBOT_CHANNELS = c] :
        n \in PiNames, b \in {"", "1"}, s \in {"", "1"}, t \in {"", "1"},
        c \in {<<>>, <<"telegram">>, <<"whatsapp">>, <<"telegram", ",", "whatsapp">>}}

InitPi ==
    /\ env \in PiEnvs
    /\ host = DefaultHost
    /\ cachedFeatures = <<>>
    /\ features = EmptyObject
    /\ result = <<>>
    /\ lastCall = NoCall
    /\ InitLoaders

NextPi ==
    \/ \E l \in Loaders : GetInterface(l)
    \/ \E c \in FacadeCallers :
        \/ \E l \in Loaders : LiveOperation(c, l)
        \/ \E op \in {"launchBrowser", "getBrowser", "newPage"} : BrowserOperation(c, op)
        \/ ImportSettles(c)
        \/ CloseBrowser(c)

SpecPi == InitPi /\ [][NextPi]_vars

UserIds == {7, 8}

\* Number.prototype.toString() on the ids that occur
toString(n) == IF n = 0 THEN "0" ELSE IF n = 7 THEN "7" ELSE IF n = 8 THEN "8" ELSE "NaN"

\* const ADMIN_ID = process.env.TELEGRAM_ADMIN_ID  (<<>> when unset)
ADMIN_ID == env["TELEGRAM_ADMIN_ID"]

\* !s for s: string | undefined
Unset(s) == s = <<>> \/ s = <<"">>

\* ctx.from?.id || 0
senderId(u) == IF u.from = <<>> \/ u.from[1] = 0 THEN 0 ELSE u.from[1]

isAdmin(userId) ==
    IF Unset(ADMIN_ID) THEN FALSE
    ELSE toString(userId) = ADMIN_ID[1]

\* ctx.message?.text?.replace('/cmd', '').trim().split(' '): the words after
\* the command; <<>> stands for undefined and for [''] alike (args[0] falsy)
commandArgs(u) ==
    IF u.kind = "message" /\ Len(u.text) > 0 THEN Tail(u.text) ELSE <<>>

\* args?.[i], "" when it is undefined (both falsy)
ArgAt(args, i) == IF i <= Len(args) THEN args[i] ELSE ""

\* args?.slice(i).join(' '), <<>> when empty (falsy)
ArgsFrom(args, i) == IF i <= Len(args) THEN SubSeq(args, i, Len(args)) ELSE <<>>

\* what a handler performs: by is the function called ("runCommand",
\* "exec", "readFile", ...), command the fixed text of its argument, text
\* the words of the message put into it
Performs(by, template, words) == [by |-> by, command |-> template, text |-> words]

\* runCommand(cmd): execAsync of the template with the words put into it
Shell(template, words) == Performs("runCommand", template, words)

\* a handler's outcome: what it replied and what it did
Handled(reply, actions) == [reply |-> reply, actions |-> actions]

\* String.prototype.toLowerCase() on one word of a command
wordToLowerCase(w) ==
    IF w = "ON" THEN "on" ELSE IF w = "OFF" THEN "off" ELSE IF w = "READ" THEN "read" ELSE w

\* the sample values of TELEGRAM_ADMIN_ID: unset, empty, an id no user has,
\* a user's id, and that id written with a leading zero
BotEnvs ==
    {[TELEGRAM_ADMIN_ID |-> a, TAPO_EMAIL |-> e, TAPO_PASSWORD |-> p] :
        a \in {<<>>, <<"">>, <<"0">>, <<"7">>, <<"07">>},
        e \in {<<>>, <<"set">>}, p \in {<<>>, <<"set">>}}

\* the words after the command, per command
ArgSamples(name) ==
    CASE name = "bash" -> {<<>>, <<"ls">>, <<"rm", "-rf", "/">>}
      [] name = "read" -> {<<>>, <<"/etc/passwd">>}
      [] name = "write" -> {<<>>, <<"/tmp/f">>, <<"/tmp/f", "hello">>}
      [] name = "gpio" -> {<<>>, <<"17">>, <<"17", "ON">>, <<"17", "off">>, <<"17", "read">>,
                          <<"17", "blink">>}
      [] name = "scan" -> {<<>>, <<"ports">>, <<"ports", "10.0.0.1">>,
                          <<"ports", "10.0.0.1", "22">>}
      [] name = "honeypot" -> {<<>>, <<"start">>, <<"start", "ssh">>, <<"stop", "ssh">>,
                              <<"logs">>, <<"logs", "5">>, <<"clear">>}
      [] name = "wifi" -> {<<>>, <<"scan">>, <<"clients">>}
      [] name = "breach" -> {<<>>, <<"email", "a@b.c">>, <<"password", "p", "q">>,
                            <<"monitor">>, <<"list">>}
      [] name = "2fa" -> {<<>>, <<"add", "git", "SECRET">>, <<"add", "git">>, <<"get", "git">>,
                         <<"remove", "git">>, <<"list">>}
      [] name = "dns" -> {<<>>, <<"enable">>, <<"disable">>, <<"disable", "60">>,
                         <<"block", "ads.example">>, <<"block">>}
      [] name = "vpn" -> {<<>>, <<"up">>, <<"down", "wg1">>, <<"newpeer", "p", "key", "host">>,
                         <<"newpeer", "p">>}
      [] name = "vault" -> {<<>>, <<"get", "f">>, <<"delete", "f">>, <<"get">>}
      [] name = "home" -> {<<>>, <<"status">>, <<"list">>, <<"on">>, <<"on", "lamp">>,
                          <<"off", "lamp;", "id">>, <<"toggle", "lamp">>, <<"temp">>,
                          <<"sensors">>, <<"sensors", "$(id)">>, <<"help">>}
      [] OTHER -> {<<>>}

\* the updates a bot.command(name) handler is run for: a message of a user,
\* or a channel post, which has no sender and leaves ctx.message undefined
Updates(name) ==
    {[kind |-> "message", from |-> <<id>>, text |-> <<"/" \o name>> \o args] :
        id \in UserIds, args \in ArgSamples(name)}
    \cup {[kind |-> "channel_post", from |-> <<>>, text |-> <<"/" \o name>> \o args] :
        args \in ArgSamples(name)}

\* the text messages bot.on('message:text') is run for
TextMessages ==
    {[kind |-> "message", from |-> <<id>>, text |-> t] :
        id \in UserIds, t \in {<<"hello">>, <<"turn", "on", "lamp">>}}

\* what the chat model may answer
Replies ==
    {[kind |-> k, tool |-> "", args |-> <<>>] : k \in {"none", "invalid"}}
    \cup {[kind |-> "tool", tool |-> t, args |-> a] :
            t \in {"home_on", "scan_network", "format_disk"}, a \in {<<>>, <<"lamp">>}}

InitBot ==
    /\ env \in BotEnvs
    /\ host \in {[tapoCli |-> c] : c \in BOOLEAN}
    /\ cachedFeatures = <<>>
    /\ features = EmptyObject
    /\ result = <<>>
    /\ lastCall = Call("none", [kind |-> "none", from |-> <<>>, text |-> <<>>],
                       FALSE, "", <<>>, "")
    /\ InitLoaders

\* bot.command('bash')
OnBash ==
    \E u \in Updates("bash") :
        LET h ==
              IF ~isAdmin(senderId(u)) THEN Handled("Admin only", <<>>)
              ELSE LET line == commandArgs(u)
                   IN  IF line = <<>> THEN Handled("Usage", <<>>)
                       ELSE Handled("output", <<Shell("", line)>>)
        IN  /\ lastCall' = Call("bash", u, FALSE, "", h.actions, h.reply)
            /\ UNCHANGED <<env, host, cachedFeatures, features, result>>
            /\ UNCHANGED loaderVars

\* bot.command('read')
OnRead ==
    \E u \in Updates("read") :
        LET h ==
              IF ~isAdmin(senderId(u)) THEN Handled("Admin only", <<>>)
              ELSE LET filePath == commandArgs(u)
                   IN  IF filePath = <<>> THEN Handled("Usage", <<>>)
                       ELSE Handled("content", <<Performs("readFile", "", filePath)>>)
        IN  /\ lastCall' = Call("read", u, FALSE, "", h.actions, h.reply)
            /\ UNCHANGED <<env, host, cachedFeatures, features, result>>
            /\ UNCHANGED loaderVars

\* bot.command('write'): the path is the text before the first space
OnWrite ==
    \E u \in Updates("write") :
        LET h ==
              IF ~isAdmin(senderId(u)) THEN Handled("Admin only", <<>>)
              ELSE LET args == commandArgs(u)
                   IN  IF Len(args) < 2 THEN Handled("Usage", <<>>)
                       ELSE Handled("Written", <<Performs("writeFile", "", args)>>)
        IN  /\ lastCall' = Call("write", u, FALSE, "", h.actions, h.reply)
            /\ UNCHANGED <<env, host, cachedFeatures, features, result>>
            /\ UNCHANGED loaderVars

\* bot.command('gpio')
OnGpio ==
    \E u \in Updates("gpio") :
        LET h ==
              IF ~isAdmin(senderId(u)) THEN Handled("Admin only", <<>>)
              ELSE LET args == commandArgs(u)
                       pin == ArgAt(args, 1)
                       action == wordToLowerCase(ArgAt(args, 2))
                   IN  IF Len(args) < 2 THEN Handled("Usage", <<>>)
                       ELSE IF action = "on"
                            THEN Handled("HIGH", <<Shell("gpio export; direction out; value 1", <<pin>>)>>)
                       ELSE IF action = "off"
                            THEN Handled("LOW", <<Shell("gpio export; direction out; value 0", <<pin>>)>>)
                       ELSE IF action = "read"
                            THEN Handled("value", <<Shell("cat gpio value", <<pin>>)>>)
                       ELSE Handled("", <<>>)
        IN  /\ lastCall' = Call("gpio", u, FALSE, "", h.actions, h.reply)
            /\ UNCHANGED <<env, host, cachedFeatures, features, result>>
            /\ UNCHANGED loaderVars

\* bot.command('reboot'): the command runs from the timer the handler sets
OnReboot ==
    \E u \in Updates("reboot") :
        LET h ==
              IF ~isAdmin(senderId(u)) THEN Handled("Admin only", <<>>)
              ELSE Handled("Rebooting", <<Performs("exec", "sudo reboot", <<>>)>>)
        IN  /\ lastCall' = Call("reboot", u, FALSE, "", h.actions, h.reply)
            /\ UNCHANGED <<env, host, cachedFeatures, features, result>>
            /\ UNCHANGED loaderVars

\* bot.command('shutdown')
OnShutdown ==
    \E u \in Updates("shutdown") :
        LET h ==
              IF ~isAdmin(senderId(u)) THEN Handled("Admin only", <<>>)
              ELSE Handled("Shutting down", <<Performs("exec", "sudo shutdown -h now", <<>>)>>)
        IN  /\ lastCall' = Call("shutdown", u, FALSE, "", h.actions, h.reply)
            /\ UNCHANGED <<env, host, cachedFeatures, features, result>>
            /\ UNCHANGED loaderVars

\* bot.command('scan')
OnScan ==
    \E u \in Updates("scan") :
        LET h ==
              IF ~isAdmin(senderId(u)) THEN Handled("Admin only", <<>>)
              ELSE LET args == commandArgs(u)
                       action == ArgAt(args, 1)
                       target == ArgAt(args, 2)
                       ports == ArgAt(args, 3)
                   IN  IF action = "ports" /\ target # ""
                       THEN IF ports # ""
                            THEN Handled("Port Scan", <<Shell("security scan ports", <<target, ports>>)>>)
                            ELSE Handled("Port Scan", <<Shell("security scan ports common", <<target>>)>>)
                       ELSE Handled("Network Scan", <<Shell("security scan", <<>>)>>)
        IN  /\ lastCall' = Call("scan", u, FALSE, "", h.actions, h.reply)
            /\ UNCHANGED <<env, host, cachedFeatures, features, result>>
            /\ UNCHANGED loaderVars

\* bot.command('alerts')
OnAlerts ==
    \E u \in Updates("alerts") :
        LET h ==
              IF ~isAdmin(senderId(u)) THEN Handled("Admin only", <<>>)
              ELSE Handled("Security Alerts", <<Shell("security alerts", <<>>)>>)
        IN  /\ lastCall' = Call("alerts", u, FALSE, "", h.actions, h.reply)
            /\ UNCHANGED <<env, host, cachedFeatures, features, result>>
            /\ UNCHANGED loaderVars

\* bot.command('honeypot')
OnHoneypot ==
    \E u \in Updates("honeypot") :
        LET h ==
              IF ~isAdmin(senderId(u)) THEN Handled("Admin only", <<>>)
              ELSE LET args == commandArgs(u)
                       action == ArgAt(args, 1)
                       service == ArgAt(args, 2)
                   IN  IF action = "start" /\ service # ""
                       THEN Handled("result", <<Shell("security honeypot start", <<service>>)>>)
                       ELSE IF action = "stop" /\ service # ""
                       THEN Handled("result", <<Shell("security honeypot stop", <<service>>)>>)
                       ELSE IF action = "logs"
                       THEN IF service # ""
                            THEN Handled("Honeypot Logs", <<Shell("security honeypot logs", <<service>>)>>)
                            ELSE Handled("Honeypot Logs", <<Shell("security honeypot logs 20", <<>>)>>)
                       ELSE IF action = "clear"
                       THEN Handled("result", <<Shell("security honeypot clear", <<>>)>>)
                       ELSE Handled("Honeypot Status", <<Shell("security honeypot status", <<>>)>>)
        IN  /\ lastCall' = Call("honeypot", u, FALSE, "", h.actions, h.reply)
            /\ UNCHANGED <<env, host, cachedFeatures, features, result>>
            /\ UNCHANGED loaderVars

\* bot.command('wifi')
OnWifi ==
    \E u \in Updates("wifi") :
        LET h ==
              IF ~isAdmin(senderId(u)) THEN Handled("Admin only", <<>>)
              ELSE LET args == commandArgs(u)
                       action == IF ArgAt(args, 1) # "" THEN ArgAt(args, 1) ELSE "audit"
                   IN  IF action = "scan"
                       THEN Handled("WiFi Networks", <<Shell("security wifi scan", <<>>)>>)
                       ELSE IF action = "clients"
                       THEN Handled("Network Clients", <<Shell("security wifi clients", <<>>)>>)
                       ELSE Handled("WiFi Security Audit", <<Shell("security wifi audit", <<>>)>>)
        IN  /\ lastCall' = Call("wifi", u, FALSE, "", h.actions, h.reply)
            /\ UNCHANGED <<env, host, cachedFeatures, features, result>>
            /\ UNCHANGED loaderVars

\* bot.command('breach')
OnBreach ==
    \E u \in Updates("breach") :
        LET h ==
              IF ~isAdmin(senderId(u)) THEN Handled("Admin only", <<>>)
              ELSE LET args == commandArgs(u)
                       action == ArgAt(args, 1)
                       value == ArgsFrom(args, 2)
                   IN  IF action \in {"email", "password", "monitor"} /\ value # <<>>
                       THEN Handled("result", <<Shell("security breach " \o action, value)>>)
                       ELSE IF action = "list"
                       THEN Handled("Monitored Emails", <<Shell("security breach list", <<>>)>>)
                       ELSE Handled("Commands", <<>>)
        IN  /\ lastCall' = Call("breach", u, FALSE, "", h.actions, h.reply)
            /\ UNCHANGED <<env, host, cachedFeatures, features, result>>
            /\ UNCHANGED loaderVars

\* bot.command('2fa')
OnTwoFactor ==
    \E u \in Updates("2fa") :
        LET h ==
              IF ~isAdmin(senderId(u)) THEN Handled("Admin only", <<>>)
              ELSE LET args == commandArgs(u)
                       action == ArgAt(args, 1)
                       name == ArgAt(args, 2)
                       secret == ArgsFrom(args, 3)
                   IN  IF action = "add" /\ name # "" /\ secret # <<>>
                       THEN Handled("result", <<Shell("security 2fa add", <<name>> \o secret)>>)
                       ELSE IF action \in {"get", "remove"} /\ name # ""
                       THEN Handled("result", <<Shell("security 2fa " \o action, <<name>>)>>)
                       ELSE IF action = "list"
                       THEN Handled("2FA Services", <<Shell("security 2fa list", <<>>)>>)
                       ELSE Handled("Commands", <<>>)
        IN  /\ lastCall' = Call("2fa", u, FALSE, "", h.actions, h.reply)
            /\ UNCHANGED <<env, host, cachedFeatures, features, result>>
            /\ UNCHANGED loaderVars

\* bot.command('dns')
OnDns ==
    \E u \in Updates("dns") :
        LET h ==
              IF ~isAdmin(senderId(u)) THEN Handled("Admin only", <<>>)
              ELSE LET args == commandArgs(u)
                       action == IF ArgAt(args, 1) # "" THEN ArgAt(args, 1) ELSE "status"
                       value == ArgAt(args, 2)
                   IN  IF action = "enable"
                       THEN Handled("result", <<Shell("security dns enable", <<>>)>>)
                       ELSE IF action = "disable"
                       THEN IF value # ""
                            THEN Handled("result", <<Shell("security dns disable", <<value>>)>>)
                            ELSE Handled("result", <<Shell("security dns disable 300", <<>>)>>)
                       ELSE IF action \in {"block", "unblock", "whitelist"} /\ value # ""
                       THEN Handled("result", <<Shell("security dns " \o action, <<value>>)>>)
                       ELSE Handled("DNS Status", <<Shell("security dns status", <<>>)>>)
        IN  /\ lastCall' = Call("dns", u, FALSE, "", h.actions, h.reply)
            /\ UNCHANGED <<env, host, cachedFeatures, features, result>>
            /\ UNCHANGED loaderVars

\* bot.command('vpn')
OnVpn ==
    \E u \in Updates("vpn") :
        LET h ==
              IF ~isAdmin(senderId(u)) THEN Handled("Admin only", <<>>)
              ELSE LET args == commandArgs(u)
                       action == IF ArgAt(args, 1) # "" THEN ArgAt(args, 1) ELSE "status"
                       value == ArgAt(args, 2)
                   IN  IF action \in {"up", "down"}
                       THEN IF value # ""
                            THEN Handled("result", <<Shell("security vpn " \o action, <<value>>)>>)
                            ELSE Handled("result", <<Shell("security vpn " \o action \o " wg0", <<>>)>>)
                       ELSE IF action = "newpeer" /\ ArgAt(args, 3) # "" /\ ArgAt(args, 4) # ""
                       THEN Handled("result",
                                    <<Shell("security vpn newpeer", <<value, args[3], args[4]>>)>>)
                       ELSE Handled("VPN Status", <<Shell("security vpn status", <<>>)>>)
        IN  /\ lastCall' = Call("vpn", u, FALSE, "", h.actions, h.reply)
            /\ UNCHANGED <<env, host, cachedFeatures, features, result>>
            /\ UNCHANGED loaderVars

\* bot.command('security'): replies with the overview
OnSecurity ==
    \E u \in Updates("security") :
        LET h ==
              IF ~isAdmin(senderId(u)) THEN Handled("Admin only", <<>>)
              ELSE Handled("Security Suite", <<>>)
        IN  /\ lastCall' = Call("security", u, FALSE, "", h.actions, h.reply)
            /\ UNCHANGED <<env, host, cachedFeatures, features, result>>
            /\ UNCHANGED loaderVars

\* bot.command('temp'), 'disk', 'uptime', 'network': fixed commands, no check
OnSystemCommand ==
    \E name \in {"temp", "disk", "uptime", "network"} : \E u \in Updates(name) :
        LET h ==
              IF name = "temp" THEN Handled("CPU", <<Shell("vcgencmd measure_temp", <<>>)>>)
              ELSE IF name = "disk" THEN Handled("Disk Usage", <<Shell("df -h /", <<>>)>>)
              ELSE IF name = "uptime" THEN Handled("System", <<Shell("uptime -p", <<>>)>>)
              ELSE Handled("Network",
                           <<Shell("hostname", <<>>), Shell("hostname -I", <<>>),
                             Shell("iwgetid -r", <<>>)>>)
        IN  /\ lastCall' = Call(name, u, FALSE, "", h.actions, h.reply)
            /\ UNCHANGED <<env, host, cachedFeatures, features, result>>
            /\ UNCHANGED loaderVars

\* bot.command('vault'): files of the vault directory, no check
OnVault ==
    \E u \in Updates("vault") :
        LET h ==
              LET args == commandArgs(u)
                  action == ArgAt(args, 1)
                  fileName == ArgsFrom(args, 2)
              IN  IF action = "" THEN Handled("Stored Files", <<Performs("vault.readdir", "", <<>>)>>)
                  ELSE IF action = "get" /\ fileName # <<>>
                  THEN Handled("document", <<Performs("vault.readFile", "", fileName)>>)
                  ELSE IF action = "delete" /\ fileName # <<>>
                  THEN Handled("Deleted", <<Performs("vault.unlink", "", fileName)>>)
                  ELSE Handled("Usage", <<>>)
        IN  /\ lastCall' = Call("vault", u, FALSE, "", h.actions, h.reply)
            /\ UNCHANGED <<env, host, cachedFeatures, features, result>>
            /\ UNCHANGED loaderVars

\* bot.command('home'): no admin check; host.tapoCli is whether
\* fs.access(TAPO_CLI) succeeds
OnHome ==
    \E u \in Updates("home") :
        LET h ==
              LET args == commandArgs(u)
                  action == ArgAt(args, 1)
                  device == ArgsFrom(args, 2)
              IN  IF Unset(env["TAPO_EMAIL"]) \/ Unset(env["TAPO_PASSWORD"])
                  THEN Handled("Smart home not configured", <<>>)
                  ELSE IF ~host.tapoCli THEN Handled("Tapo CLI not found", <<>>)
                  ELSE IF action = "" \/ action = "status"
                  THEN Handled("Smart Home Status", <<Shell("tapo status", <<>>)>>)
                  ELSE IF action \in {"devices", "list"}
                  THEN Handled("Devices", <<Shell("tapo list", <<>>)>>)
                  ELSE IF action \in {"on", "off", "toggle"} /\ device # <<>>
                  THEN Handled("result", <<Shell("tapo " \o action, device)>>)
                  ELSE IF action \in {"temp", "temperature"}
                  THEN Handled("Temperature", <<Shell("tapo temp", <<>>)>>)
                  ELSE IF action = "sensors"
                  THEN IF device # <<>>
                       THEN Handled("Sensors", <<Shell("tapo sensors", device)>>)
                       ELSE Handled("Sensors", <<Shell("tapo sensors home", <<>>)>>)
                  ELSE Handled("Smart Home Commands", <<>>)
        IN  /\ lastCall' = Call("home", u, FALSE, "", h.actions, h.reply)
            /\ UNCHANGED <<env, host, cachedFeatures, features, result>>
            /\ UNCHANGED loaderVars

\* AI_TOOLS: the tools whose cmd is a function of the argument ...
ArgumentTools ==
    {"scan_ports", "check_password", "check_email", "honeypot_start", "totp_get",
     "home_on", "home_off"}

\* ... and those whose cmd is a fixed string
FixedTools ==
    {"scan_network", "wifi_audit", "wifi_scan", "honeypot_status", "honeypot_logs",
     "totp_list", "system_status", "home_status", "home_temp", "alerts"}

\* executeAITool(toolName, args): <<>> is null; args is <<>> when the request
\* has none (or an empty one)
executeAITool(toolName, args) ==
    IF toolName \notin ArgumentTools \cup FixedTools THEN <<>>
    ELSE IF toolName \in ArgumentTools
    THEN IF args = <<>> THEN <<Handled("requires an argument", <<>>)>>
         ELSE <<Handled("tool output", <<Shell(toolName, args)>>)>>
    ELSE <<Handled("tool output", <<Shell(toolName, <<>>)>>)>>

\* bot.on('message:text'): r is what the chat model's reply holds in its
\* ```json block: r.kind is "none" when the reply has no block, "invalid"
\* when JSON.parse throws, else "tool" with toolRequest.tool and .args
OnMessageText ==
    \E u \in TextMessages : \E r \in Replies :
        LET h ==
              LET userIsAdmin == isAdmin(senderId(u))
              IN  IF r.kind = "none" THEN Handled("reply", <<>>)
                  ELSE IF r.kind = "invalid" THEN Handled("reply without json", <<>>)
                  ELSE IF ~userIsAdmin THEN Handled("Tool execution requires admin access", <<>>)
                  ELSE LET toolResult == executeAITool(r.tool, r.args)
                       IN  IF toolResult = <<>> THEN Handled("Unknown tool", <<>>)
                           ELSE IF toolResult[1].actions = <<>>
                                THEN Handled("summary of the error", <<>>)
                                ELSE Handled("summary", toolResult[1].actions)
        IN  /\ lastCall' = Call("message:text", u, FALSE, "", h.actions, h.reply)
            /\ UNCHANGED <<env, host, cachedFeatures, features, result>>
            /\ UNCHANGED loaderVars

NextBot ==
    \/ OnBash
    \/ OnRead
    \/ OnWrite
    \/ OnGpio
    \/ OnReboot
    \/ OnShutdown
    \/ OnScan
    \/ OnAlerts
    \/ OnHoneypot
    \/ OnWifi
    \/ OnBreach
    \/ OnTwoFactor
    \/ OnDns
    \/ OnVpn
    \/ OnSecurity
    \/ OnSystemCommand
    \/ OnVault
    \/ OnHome
    \/ OnMessageText

SpecBot == InitBot /\ [][NextBot]_vars

\* the commands the README lists as admin commands and the security tools
AdminCommands ==
    {"bash", "read", "write", "gpio", "reboot", "shutdown",
     "scan", "alerts", "honeypot", "wifi", "breach", "2fa", "dns", "vpn"}

\* the latest handler run performed an admin-only action: one of the admin
\* commands did something, or the text handler executed a tool
PerformedAdminAction ==
    /\ lastCall.op \in AdminCommands \cup {"message:text"}
    /\ lastCall.flags # <<>>

\* the update the latest handler ran for has a sender, whose id is the
\* value of TELEGRAM_ADMIN_ID
SenderIsAdmin ==
    /\ ADMIN_ID # <<>>
    /\ lastCall.arg.from # <<>>
    /\ toString(lastCall.arg.from[1]) = ADMIN_ID[1]

\* C29: an admin-only action (/bash, /read, /write, /gpio, /reboot,
\* /shutdown, a security-tool command, a tool run for the model's reply) is
\* performed only for an update whose sender's id equals TELEGRAM_ADMIN_ID,
\* and never while TELEGRAM_ADMIN_ID is unset.
C29_AdminActionsOnlyForAdmin == PerformedAdminAction => SenderIsAdmin

\* the words of shell command a that occur in the text of update u
TakenFromMessage(a, u) == {a.text[j] : j \in 1..Len(a.text)} \cap {u.text[j] : j \in 1..Len(u.text)}

\* the latest handler run executed a shell command holding words of the message
RanSenderText ==
    \E i \in 1..Len(lastCall.flags) :
        /\ lastCall.flags[i].by \in {"runCommand", "exec"}
        /\ TakenFromMessage(lastCall.flags[i], lastCall.arg) # {}

\* C30: no handler run for a message of a user who is not the admin executes
\* a shell command that contains text of that message.
C30_NoShellTextFromNonAdmin ==
    (lastCall.op # "none" /\ lastCall.arg.from # <<>> /\ ~SenderIsAdmin) => ~RanSenderText

(***************************************************************************)
(* The resolver with object identity (features.ts:76-354).  The heap maps   *)
(* a reference to the object it names; a FeatureFlags object holds the     *)
(* references of its channels and tools objects.  Besides the registered   *)
(* objects two generations "a" and "b" of allocated objects suffice: the   *)
(* cache keeps one alive, and a result the caller dropped is collected.    *)
(* The variable `features` holds the heap, `cachedFeatures` and `result`   *)
(* hold references.                                                        *)
(***************************************************************************)
RegisteredRefs == {"default", "raspberry-pi", "embedded"}

\* the value (nested objects included) the module gives a registered object
registeredValue(p) ==
    IF p = "default" THEN defaultFeatures
    ELSE IF p = "raspberry-pi" THEN raspberryPiFeatures
    ELSE embeddedFeatures

\* the heap once features.ts is evaluated; "Object" is what a prototype key
\* of the registry reads, an object without own flag keys
RegisteredHeap ==
    [x \in RegisteredRefs \cup {p \o k : p \in RegisteredRefs, k \in {".channels", ".tools"}}
           \cup {"Object"}
           \cup {g \o k : g \in {"a", "b"}, k \in {"", ".channels", ".tools"}} |->
        IF x \in RegisteredRefs
        THEN ObjAssign(ObjAssign(registeredValue(x), "channels", x \o ".channels"),
                       "tools", x \o ".tools")
        ELSE IF \E p \in RegisteredRefs : x = p \o ".channels"
        THEN registeredValue(CHOOSE p \in RegisteredRefs : x = p \o ".channels").channels
        ELSE IF \E p \in RegisteredRefs : x = p \o ".tools"
        THEN registeredValue(CHOOSE p \in RegisteredRefs : x = p \o ".tools").tools
        ELSE EmptyObject]

\* profiles[name] || defaultFeatures as a reference
selectRef(name) ==
    IF name \in {"raspberry-pi", "rpi", "lite"} THEN "raspberry-pi"
    ELSE IF name \in {"embedded", "iot"} THEN "embedded"
    ELSE IF name \in PrototypeKeys THEN "Object"
    ELSE "default"

\* the object o.k refers to in heap h ({} when o.k is undefined: `...undefined`)
Nested(h, o, k) == IF Has(h[o], k) THEN h[h[o][k]] ELSE EmptyObject

\* mutant: `const result = features`, the overrides written to the argument
resultRef_Alias(ref, g) == ref

\* applyEnvOverrides, `const result = { ...features }`: a new object
resultRef(ref, g) == g

\* applyEnvOverrides(features) on the heap: the heap after the call, the
\* result being resultRef(ref, g) and the new objects those of generation g
applyEnvOverridesIn(h, ref, g, e) ==
    LET r == resultRef(ref, g)
        h0 == [x \in DOMAIN h |->
                  IF x = g THEN h[ref]
                  ELSE IF x \in {g \o ".channels", g \o ".tools"} THEN EmptyObject
                  ELSE h[x]]
        h1 == IF e.MOLTBOT_DISABLE_BROWSER = "1"
              THEN [h0 EXCEPT
                      ![g \o ".tools"] =
                          ObjSpread(Nested(h0, r, "tools"),
                                    [browser |-> FALSE, webScrape |-> FALSE,
                                     screenshot |-> FALSE]),
                      ![r] = ObjAssign(ObjAssign(@, "browser", FALSE), "tools", g \o ".tools")]
              ELSE h0
        h2 == IF e.MOLTBOT_DISABLE_SHARP = "1"
              THEN [h1 EXCEPT
                      ![g \o ".tools"] =
                          ObjSpread(Nested(h1, r, "tools"), [imageEdit |-> FALSE]),
                      ![r] = ObjAssign(ObjAssign(@, "imageProcessing", FALSE),
                                       "tools", g \o ".tools")]
              ELSE h1
        h3 == IF e.MOLTBOT_DISABLE_TUI = "1"
              THEN [h2 EXCEPT ![r] = ObjAssign(@, "tui", FALSE)]
              ELSE h2
    IN  IF e.MOLTBOT_CHANNELS # <<>>
        THEN [h3 EXCEPT
                ![g \o ".channels"] =
                    [c \in ChannelNames |-> includes(split(e.MOLTBOT_CHANNELS), c)],
                ![r] = ObjAssign(@, "channels", g \o ".channels")]
        ELSE h3

InitHeap ==
    /\ env = UnsetEnv
    /\ host = DefaultHost
    /\ cachedFeatures = <<>>
    /\ features = RegisteredHeap
    /\ result = <<>>
    /\ lastCall = NoCall
    /\ InitLoaders

\* loadFeatures(forceProfile) on the heap
LoadFeaturesIn ==
    \E forceProfile \in ProfileValues :
        LET g == IF cachedFeatures = <<"a">> THEN "b" ELSE "a"
            ref == selectRef(profileName(forceProfile, env, host))
        IN  IF cacheHit(cachedFeatures, forceProfile)
            THEN /\ result' = cachedFeatures
                 /\ lastCall' = Call("loadFeatures", forceProfile, FALSE, "", EmptyObject, "")
                 /\ UNCHANGED <<env, host, cachedFeatures, features>>
                 /\ UNCHANGED loaderVars
            ELSE /\ features' = applyEnvOverridesIn(features, ref, g, env)
                 /\ result' = <<resultRef(ref, g)>>
                 /\ cachedFeatures' = cacheAfter(cachedFeatures, forceProfile, resultRef(ref, g))
                 /\ lastCall' = Call("loadFeatures", forceProfile, TRUE, ref, EmptyObject, "")
                 /\ UNCHANGED <<env, host>>
                 /\ UNCHANGED loaderVars

NextHeap ==
    \/ SetEnv
    \/ LoadFeaturesIn

SpecHeap == InitHeap /\ [][NextHeap]_vars

\* C31: after any sequence of loadFeatures calls under any environment the
\* registered objects defaultFeatures, raspberryPiFeatures and
\* embeddedFeatures still refer to their own channels and tools objects and
\* these three objects and their nested objects hold their initial values.
C31_RegisteredObjectsUnchanged ==
    \A x \in DOMAIN RegisteredHeap :
        (\E p \in RegisteredRefs : x \in {p, p \o ".channels", p \o ".tools"})
            => features[x] = RegisteredHeap[x]

\* loadFeatures returned an object built from a registered one with the
\* browser override applied: its own flag and its own tools object differ
\* from the registered object's, which it shares the channels object with
C31_Witness ==
    /\ result # <<>> /\ lastCall.computed /\ lastCall.profile = "default"
    /\ ~features[result[1]].browser
    /\ features[result[1]].tools # "default.tools"
    /\ features[result[1]].channels = "default.channels"

\* C32: a forced load, loadFeatures(name) with a name given, leaves the
\* cached snapshot (or its absence) as it was, and returns the flags of the
\* forced name under the environment of the call, whatever the cache holds.
C32_ForcedLoadBypassesCache ==
    [][(IsCall("loadFeatures") /\ lastCall'.arg # "")
          => /\ cachedFeatures' = cachedFeatures
             /\ lastCall'.computed
             /\ lastCall'.profile = lastCall'.arg
             /\ lastCall'.flags = applyEnvOverrides(selectFeatures(lastCall'.arg), env)]_vars

\* a forced load returned flags that differ from the snapshot the cache holds
C32_Witness ==
    /\ lastCall.op = "loadFeatures" /\ lastCall.arg = "raspberry-pi"
    /\ cachedFeatures # <<>>
    /\ cachedFeatures[1] # lastCall.flags
    /\ cachedFeatures[1] = defaultFeatures

\* C35: no call of getBrowser, launchBrowser or newPage obtains a browser
\* instance whose close() a closeBrowser call has already started, under any
\* interleaving of closeBrowser with them.
C35_NeverReturnsClosingBrowser ==
    [][\A c \in Callers :
          (outcome'[c] # outcome[c] /\ outcome'[c].kind = "browser")
              => ~\E d \in Callers : pc[d].at = "close" /\ pc[d].id = outcome'[c].id]_vars

\* in flags f every tool that needs a capability is on only if the capability is
ToolsFollowCapabilities(f) ==
    /\ \A t \in {"browser", "webScrape", "screenshot"} :
          IsOn(SubObject(f, "tools"), t) => IsOn(f, "browser")
    /\ IsOn(SubObject(f, "tools"), "imageEdit") => IsOn(f, "imageProcessing")

\* C36: in the flags of every registered profile, and in the flags
\* applyEnvOverrides makes of them under any combination of the override
\* variables, tools.browser, tools.webScrape and tools.screenshot are on
\* only if browser is, and tools.imageEdit only if imageProcessing is.
C36_ToolsFollowCapabilities ==
    (lastCall.op = "selectFeatures" /\ lastCall.arg \in RegisteredNames)
        => /\ ToolsFollowCapabilities(features)
           /\ result # <<>> => ToolsFollowCapabilities(result[1])

\* the default profile, with all four tools on, resolved with only the image
\* override set: imageEdit went off with imageProcessing, the browser tools stay
C36_Witness ==
    /\ lastCall.op = "selectFeatures" /\ lastCall.arg = "default"
    /\ features.tools.imageEdit /\ features.tools.screenshot
    /\ result # <<>>
    /\ env.MOLTBOT_DISABLE_SHARP = "1" /\ env.MOLTBOT_DISABLE_BROWSER # "1"
    /\ ~result[1].imageProcessing /\ ~result[1].tools.imageEdit
    /\ result[1].browser /\ result[1].tools.screenshot

(***************************************************************************)
(* The operation names of the object getXInterface() returns.               *)
(***************************************************************************)
\* the object literal getXInterface() returns when the capability is enabled
\* (lazy-playwright.ts:166-178, lazy-sharp.ts:253-265,
\* lazy-baileys.ts getWhatsAppInterface, lazy-pdfjs.ts getPDFInterface,
\* lazy-llama.ts:187-199)
liveOperations(l) ==
    IF l = "playwright"
    THEN {"launchBrowser", "getBrowser", "closeBrowser", "newPage", "isBrowserAvailable"}
    ELSE IF l = "sharp"
    THEN {"createSharpInstance", "resizeImage", "convertImage", "getImageMetadata",
          "isImageProcessingAvailable"}
    ELSE IF l = "baileys"
    THEN {"loadBaileys", "createWhatsAppSocket", "isWhatsAppAvailable"}
    ELSE IF l = "pdfjs"
    THEN {"loadPdfjs", "loadPDFDocument", "extractPDFText", "getPDFMetadata",
          "isPDFParsingAvailable"}
    ELSE {"loadLlama", "loadModel", "generateLocalEmbeddings", "generateCompletion",
          "isLocalLLMAvailable"}

\* the operation names of the object a getXInterface() call returned
interfaceOperations(l, selected) ==
    IF selected = "live" THEN liveOperations(l) ELSE stubOperations(l)

(***************************************************************************)
(* C37 as stated: whichever operation set a getXInterface() call returns,   *)
(* it offers every operation name of the loader's live set, so a caller can *)
(* invoke the same names whether the capability is enabled or disabled.     *)
(***************************************************************************)
C37_StubOffersLiveOperations ==
    (lastCall.op = "getInterface" /\ lastCall.value \in {"live", "stub"})
        => liveOperations(lastCall.arg)
              \subseteq interfaceOperations(lastCall.arg, lastCall.value)

(***************************************************************************)
(* The reminders of the Telegram bot (src/bot.ts): the list `reminders`,    *)
(* the file REMINDERS_FILE, the /remind and /reminders handlers and the     *)
(* checkReminders timer.                                                    *)
(*                                                                         *)
(* Time is Date.now() in milliseconds.  Every `await` is a point where a    *)
(* function is suspended and the other callbacks of the event loop run:     *)
(* checkReminders awaits each sendMessage and its saveReminders, the        *)
(* /remind handler awaits saveReminders.  setInterval starts a new          *)
(* checkReminders every 30 seconds whether or not an earlier run has        *)
(* returned; the updates of the long polling loop are handled one after the *)
(* other, so one handler is in progress at a time.  Process 0 is the        *)
(* handler, the processes 1..MaxRuns are the checkReminders runs.  A        *)
(* sendMessage and a writeFile settle after any delay; a writeFile that     *)
(* settles replaces the content of the file by the text it was given.       *)
(*                                                                         *)
(* In this part `features` holds the list `reminders`, `result` the         *)
(* content of the file (the list it parses to), `modules` the reminders     *)
(* passed to sendMessage so far, `host` the clock and the time the timer    *)
(* fires next, `pc` where each process is, `importCount` the number of      *)
(* reminders created and `launchCount` how often the clock advanced.        *)
(***************************************************************************)
\* how many reminders are created
MaxReminders == 2

\* how often the clock advances
MaxAdvances == 2

\* how many checkReminders runs are in progress at once
MaxRuns == 2

\* setInterval(checkReminders, 30000)
CheckIntervalMs == 30000

\* let reminders: Reminder[]
reminders == features

\* the content of REMINDERS_FILE, as the list JSON.parse reads from it
remindersFile == result

\* the reminders bot.api.sendMessage has been called with, in order
sendMessageCalls == modules

\* crypto.randomBytes(4).toString('hex') of the n-th reminder created (the
\* ids drawn are taken to be distinct)
randomId(n) == <<"1f0c9a3e", "a47b22d0", "5e91c6f8", "c03d7b15">>[n]

\* where a process is: "idle", or suspended in an await ("send" with the
\* clock value and the due list of its run and the index of the reminder
\* being sent; "save" with the text handed to writeFile and the reply that
\* follows it)
Position(at, now, due, i, content, reply) ==
    [at |-> at, now |-> now, due |-> due, i |-> i, content |-> content, reply |-> reply]

NotRunning == Position("idle", 0, <<>>, 0, <<>>, "")

\* parseInt on the digit words that occur
parseInt(w) == IF w = "0" THEN 0 ELSE IF w = "30" THEN 30 ELSE 1

\* the words matched by /in\s+(\d+)\s*(min|minute|hour|hr|day|sec|second)s?/:
\* the position of "in", 0 when there is no match
inMatch(text) ==
    LET at == {i \in 1..Len(text) :
                 /\ i + 2 <= Len(text)
                 /\ text[i] = "in"
                 /\ text[i + 1] \in {"0", "1", "30"}
                 /\ text[i + 2] \in {"sec", "min"}}
    IN  IF at = {} THEN 0 ELSE CHOOSE i \in at : \A j \in at : i <= j

\* parseTime(text) at clock value now: <<>> for null.  The "at HH:MM" and
\* "tomorrow at HH:MM" forms are not among the texts used here.
parseTime(text, now) ==
    LET i == inMatch(text)
    IN  IF i = 0 THEN <<>>
        ELSE IF text[i + 2] = "sec" THEN <<now + parseInt(text[i + 1]) * 1000>>
        ELSE <<now + parseInt(text[i + 1]) * 60 * 1000>>

\* the message of a reminder: the text without the time phrase, 'Reminder!'
\* when nothing is left
reminderMessage(text) ==
    LET i == inMatch(text)
        rest == SubSeq(text, 1, i - 1) \o SubSeq(text, i + 3, Len(text))
    IN  IF rest = <<>> THEN <<"Reminder!">> ELSE rest

\* reminders.findIndex(r => r.id === id): 0 when there is none
findIndex(list, id) ==
    LET at == {i \in 1..Len(list) : list[i].id = id}
    IN  IF at = {} THEN 0 ELSE CHOOSE i \in at : \A j \in at : i <= j

\* reminders.splice(index, 1)
splice(list, index) == SubSeq(list, 1, index - 1) \o SubSeq(list, index + 1, Len(list))

\* reminders.filter(r => r.time <= now)
dueAt(list, now) == SelectSeq(list, LAMBDA r : r.time <= now)

\* reminders.filter(r => r.time > now)
notDueAt(list, now) == SelectSeq(list, LAMBDA r : r.time > now)

\* the /remind updates: no text, a text without a time, reminders due at
\* once and in 30 seconds, and the cancellation of each id
RemindUpdates ==
    {[kind |-> "message", from |-> <<u>>, text |-> <<"/remind">> \o args] :
        u \in UserIds,
        args \in {<<>>, <<"soon">>, <<"in", "0", "sec">>, <<"in", "30", "sec", "tea">>}
                   \cup {<<"cancel", randomId(n)>> : n \in 1..MaxReminders}}
    \cup {[kind |-> "channel_post", from |-> <<>>, text |-> <<"/remind", "in", "0", "sec">>]}

\* start(): loadReminders() of a missing file, then setInterval
InitReminders ==
    /\ env \in {[TELEGRAM_ADMIN_ID |-> <<"7">>, TAPO_EMAIL |-> <<>>, TAPO_PASSWORD |-> <<>>]}
    /\ host = [now |-> CheckIntervalMs, nextCheck |-> 2 * CheckIntervalMs]
    /\ features = <<>>
    /\ result = <<>>
    /\ modules = <<>>
    /\ pc = [p \in 0..MaxRuns |-> NotRunning]
    /\ importCount = 0
    /\ launchCount = 0
    /\ cachedFeatures = <<>>
    /\ browser = <<>>
    /\ outcome = <<>>
    /\ lastCall = Call("none", [kind |-> "none", from |-> <<>>, text |-> <<>>],
                       FALSE, "", <<>>, "")

\* time passes: by a millisecond, or by the period of the timer
AdvanceClock ==
    /\ launchCount < MaxAdvances
    /\ \E d \in {1, CheckIntervalMs} : host' = [host EXCEPT !.now = @ + d]
    /\ launchCount' = launchCount + 1
    /\ UNCHANGED <<env, cachedFeatures, features, result, lastCall, modules, browser,
                   importCount, pc, outcome>>

\* bot.command('remind') up to its first await or its return
OnRemind ==
    \E u \in RemindUpdates :
        LET text == commandArgs(u)
            index == findIndex(reminders, text[2])
            time == parseTime(text, host.now)
            reminder == [id |-> randomId(importCount + 1),
                         chatId |-> u.from[1],
                         userId |-> senderId(u),
                         message |-> reminderMessage(text),
                         time |-> time[1]]
        IN
        /\ pc[0] = NotRunning
        /\ IF text = <<>>
           THEN /\ lastCall' = Call("remind", u, FALSE, "", <<>>, "Usage")
                /\ UNCHANGED <<features, pc, importCount>>
           ELSE IF Len(text) >= 2 /\ text[1] = "cancel"
           THEN IF index > 0
                THEN /\ reminders' = splice(reminders, index)
                     /\ pc' = [pc EXCEPT ![0] = Position("save", 0, <<>>, 0, reminders',
                                                         "Reminder cancelled")]
                     /\ lastCall' = Call("remind", u, FALSE, "", <<>>, "")
                     /\ UNCHANGED importCount
                ELSE /\ lastCall' = Call("remind", u, FALSE, "", <<>>, "Reminder not found")
                     /\ UNCHANGED <<features, pc, importCount>>
           ELSE IF time = <<>> \/ time = <<0>>
           THEN /\ lastCall' = Call("remind", u, FALSE, "", <<>>, "Could not understand time")
                /\ UNCHANGED <<features, pc, importCount>>
           ELSE /\ importCount < MaxReminders
                /\ reminders' = Append(reminders, reminder)
                /\ importCount' = importCount + 1
                /\ pc' = [pc EXCEPT ![0] = Position("save", 0, <<>>, 0, reminders',
                                                    "Reminder set")]
                /\ lastCall' = Call("remind", u, FALSE, "", <<>>, "")
        /\ lastCall' # lastCall
        /\ UNCHANGED <<env, host, cachedFeatures, result, modules, browser, launchCount,
                       outcome>>

\* bot.command('reminders'): the ids of the reminders it lists
OnReminders ==
    \E u \in {[kind |-> "message", from |-> <<id>>, text |-> <<"/reminders">>] :
                 id \in UserIds} :
        LET userReminders == SelectSeq(reminders, LAMBDA r : r.userId = u.from[1])
        IN  /\ pc[0] = NotRunning
            /\ lastCall' = Call("reminders", u, FALSE, "",
                                [i \in 1..Len(userReminders) |-> userReminders[i].id],
                                IF userReminders = <<>> THEN "No active reminders"
                                ELSE "Your Reminders")
            /\ lastCall' # lastCall
            /\ UNCHANGED <<env, host, cachedFeatures, features, result, modules, browser,
                           importCount, launchCount, pc, outcome>>

\* the timer fires: checkReminders() up to its first await or its return
CheckReminders ==
    \E c \in 1..MaxRuns :
        LET now == host.now
            due == dueAt(reminders, now)
        IN  /\ pc[c] = NotRunning
            /\ \A d \in 1..(c - 1) : pc[d] # NotRunning
            /\ now >= host.nextCheck
            /\ host' = [host EXCEPT !.nextCheck = now + CheckIntervalMs]
            /\ IF due = <<>>
               THEN UNCHANGED <<modules, pc>>
               ELSE /\ sendMessageCalls' = Append(sendMessageCalls, due[1].id)
                    /\ pc' = [pc EXCEPT ![c] = Position("send", now, due, 1, <<>>, "")]
            /\ UNCHANGED <<env, cachedFeatures, features, result, lastCall, browser,
                           importCount, launchCount, outcome>>

\* a sendMessage of a run settles (a rejection is caught and logged): the
\* run sends the next due reminder, or filters the list and saves it
SendSettles ==
    \E c \in 1..MaxRuns :
        LET run == pc[c]
        IN  /\ run.at = "send"
            /\ IF run.i < Len(run.due)
               THEN /\ sendMessageCalls' = Append(sendMessageCalls, run.due[run.i + 1].id)
                    /\ pc' = [pc EXCEPT ![c].i = run.i + 1]
                    /\ UNCHANGED features
               ELSE /\ reminders' = notDueAt(reminders, run.now)
                    /\ pc' = [pc EXCEPT ![c] = Position("save", 0, <<>>, 0, reminders', "")]
                    /\ UNCHANGED modules
            /\ UNCHANGED <<env, host, cachedFeatures, result, lastCall, browser,
                           importCount, launchCount, outcome>>

\* the fs.writeFile of a saveReminders() settles; a handler then replies
WriteSettles ==
    \E p \in 0..MaxRuns :
        /\ pc[p].at = "save"
        /\ remindersFile' = pc[p].content
        /\ pc' = [pc EXCEPT ![p] = NotRunning]
        /\ lastCall' = IF p = 0 THEN [lastCall EXCEPT !.value = pc[p].reply] ELSE lastCall
        /\ UNCHANGED <<env, host, cachedFeatures, features, modules, browser,
                       importCount, launchCount, outcome>>

NextReminders ==
    \/ AdvanceClock
    \/ OnRemind
    \/ OnReminders
    \/ CheckReminders
    \/ SendSettles
    \/ WriteSettles

SpecReminders == InitReminders /\ [][NextReminders]_vars

(***************************************************************************)
(* C33 as stated: each reminder is sent at most once.  Whatever the         *)
(* interleaving of the checkReminders runs (a run may start while an        *)
(* earlier one is suspended in a sendMessage) with /remind and /remind      *)
(* cancel, no reminder is passed to sendMessage twice.                      *)
(***************************************************************************)
C33_EachReminderSentAtMostOnce ==
    \A i, j \in 1..Len(sendMessageCalls) :
        sendMessageCalls[i] = sendMessageCalls[j] => i = j

\* the reminders of the list that this step takes out of it
RemovedReminders ==
    {reminders[i] : i \in {j \in 1..Len(reminders) :
                              \A k \in 1..Len(reminders') : reminders'[k].id # reminders[j].id}}

\* this step is a /remind cancel that found its reminder
CancelsReminder == pc[0] = NotRunning /\ pc'[0].reply = "Reminder cancelled"

(***************************************************************************)
(* C34 as stated, its safety part: a reminder leaves the list only by a     *)
(* /remind cancel or after it has been passed to sendMessage, its time      *)
(* reached; no reminder is removed without a send attempt, one added while  *)
(* a checkReminders run awaits a send included.                             *)
(***************************************************************************)
C34_RemovedOnlyAfterSend ==
    [][\A r \in RemovedReminders :
          \/ CancelsReminder
          \/ /\ r.time <= host.now
             /\ \E i \in 1..Len(sendMessageCalls) : sendMessageCalls[i] = r.id]_vars

(***************************************************************************)
(* C38 as stated: whenever no reminder operation is in progress (no         *)
(* handler and no checkReminders run is suspended), the content of the      *)
(* reminders file equals the list in memory.                                *)
(***************************************************************************)
C38_FileEqualsListWhenIdle ==
    (\A p \in 0..MaxRuns : pc[p] = NotRunning) => remindersFile = reminders

(***************************************************************************)
(* C39 as stated: a reminder is cancelled only by the user who created it.  *)
(* A /remind cancel <id> takes a reminder out of the list only when its     *)
(* userId is the sender's id, and /reminders lists exactly the sender's     *)
(* own reminders.                                                           *)
(***************************************************************************)
C39_CancelOnlyByCreator ==
    [][/\ CancelsReminder
            => \A r \in RemovedReminders : r.userId = senderId(lastCall'.arg)
       /\ (lastCall' # lastCall /\ lastCall'.op = "reminders")
            => \A i \in 1..Len(reminders) :
                  (reminders[i].userId = senderId(lastCall'.arg))
                      <=> (\E k \in 1..Len(lastCall'.flags) :
                              lastCall'.flags[k] = reminders[i].id)]_vars

====
